---- MODULE Spec2Model ----
(***************************************************************************)
(* A model of ragtrace's event store (core/storage.py), its capture        *)
(* aggregator (core/capture.py), cost engine (core/cost.py) and the        *)
(* LangChain callback that flushes a capture into the store                *)
(* (langchain/middleware.py).                                              *)
(*                                                                         *)
(* Conventions                                                             *)
(*   - a Python Optional is a sequence: <<>> is None, <<v>> is the value v *)
(*   - money is counted in nano-dollars (1e-9 USD), so every price of the  *)
(*     table is an integer per token; the proportional split of            *)
(*     get_cost_breakdown is computed in exact fractions [num, den]        *)
(*   - a datetime is [wall, utcoffset]: the wall-clock reading and the     *)
(*     UTC offset in hours (None for a naive datetime)                     *)
(*   - a text is a sequence of code units, ordered as SQLite's BINARY      *)
(*     collation orders TEXT (lexicographic, a proper prefix first)        *)
(***************************************************************************)
EXTENDS Integers, Sequences, FiniteSets, TLC

VARIABLES
    foreign_keys,   \* whether the connection enforces FOREIGN KEY clauses
    sessions,       \* table sessions: id -> row (DOMAIN = the ids present)
    events,         \* table events: the rows in rowid (insertion) order
    snapshots,      \* table snapshots: id -> row (DOMAIN = the ids present)
    cb,             \* the RagDebuggerCallback handler and its CaptureSession
    clock,          \* the time datetime.utcnow() reads
    last,           \* the last call made and what it returned or raised
    calls,          \* the calls in flight: each one's position and locals
    active_connections  \* ConnectionManager.active_connections

vars == <<foreign_keys, sessions, events, snapshots, cb, clock, last,
          calls, active_connections>>

-----------------------------------------------------------------------------
(* Bounds of the explored state space *)

MaxEvents == 2        \* rows of the events table, Spec
MaxSnapshots == 2     \* snapshot ids in use, Spec
MaxLogged == 3        \* rows of the events table, SpecLog
MaxPrompts == 1       \* prompts the handler has been handed, SpecFlush
MaxLimit == 2         \* the largest limit and offset of a listing, SpecList
MaxTokens == 2        \* the largest small token count, SpecCost
MaxClock == 2         \* the latest time the clock reaches, SpecFlush

-----------------------------------------------------------------------------
(* Python values *)

None == <<>>
Some(v) == <<v>>

\* d | {k: v}, a mapping with one key added or replaced
Put(f, k, v) == [x \in DOMAIN f \cup {k} |-> IF x = k THEN v ELSE f[x]]

\* the mapping without key k
Drop(f, k) == [x \in DOMAIN f \ {k} |-> f[x]]

Datetime(w, off) == [wall |-> w, utcoffset |-> off]

\* the instant a datetime denotes, in hours on the UTC axis
Instant(dt) == IF dt.utcoffset = None THEN dt.wall ELSE dt.wall - dt.utcoffset[1]

\* Python orders two datetimes only when both are naive or both are aware
Comparable(a, b) == (a.utcoffset = None) <=> (b.utcoffset = None)

\* datetime.isoformat(): the wall-clock part, then "+HH:00" when aware
\* (43 is the code unit of '+'; it sorts before '.', so the optional
\* microsecond part of the text never changes the order of two texts)
isoformat(dt) ==
    IF dt.utcoffset = None THEN <<dt.wall>> ELSE <<dt.wall, 43, dt.utcoffset[1]>>

\* datetime.fromisoformat(), also what pydantic does to a datetime field
fromisoformat(s) ==
    IF Len(s) = 1 THEN Datetime(s[1], None) ELSE Datetime(s[1], Some(s[3]))

\* a < b for two TEXT values (BINARY collation)
RECURSIVE TextLess(_, _)
TextLess(a, b) ==
    IF b = <<>> THEN FALSE
    ELSE IF a = <<>> THEN TRUE
    ELSE IF Head(a) # Head(b) THEN Head(a) < Head(b)
    ELSE TextLess(Tail(a), Tail(b))

\* the values a dict handed to json.dumps may hold under the key timestamp
PyDatetime(dt) == [py |-> "datetime", v |-> dt]
PyStr(s) == [py |-> "str", v |-> s]

\* json.dumps raises TypeError on a datetime object
JsonSerializable(data) == data.timestamp.py # "datetime"

\* json.dumps / json.loads: the text and the value read back from it
json_dumps(v) == [json |-> v]
json_loads(t) == t.json

-----------------------------------------------------------------------------
(* core/models.py *)

EventTypes == {"retrieval", "prompt", "generation"}

\* a model_dump that writes the timestamp as its ISO text, which
\* json.dumps accepts
model_dump_as_text(ev) == [ev EXCEPT !.timestamp = [py |-> "str", v |-> isoformat(ev.timestamp)]]

\* BaseModel.model_dump(): field values as Python objects
model_dump(ev) == [ev EXCEPT !.timestamp = PyDatetime(ev.timestamp)]

\* BaseModel.model_dump(mode='json'): a datetime becomes its ISO text
model_dump_json(ev) == [ev EXCEPT !.timestamp = PyStr(isoformat(ev.timestamp))]

\* RetrievalEvent(**data), PromptEvent(**data), GenerationEvent(**data):
\* pydantic parses the ISO text of timestamp back into a datetime
ParseEvent(data) == [data EXCEPT !.timestamp = fromisoformat(data.timestamp.v)]

RagSession(id, query, created_at, completed_at, total_cost, total_duration_ms, model) ==
    [id |-> id, query |-> query, created_at |-> created_at,
     completed_at |-> completed_at, total_cost |-> total_cost,
     total_duration_ms |-> total_duration_ms, model |-> model]

StoredEvent(id, session_id, event_type, timestamp, data) ==
    [id |-> id, session_id |-> session_id, event_type |-> event_type,
     timestamp |-> timestamp, data |-> data]

-----------------------------------------------------------------------------
(* core/storage.py: reads *)

\* generate_id(): k ids that no stored event has (uuid4 never repeats one)
RECURSIVE FreshIds(_, _)
FreshIds(used, k) ==
    IF k = 0 THEN <<>>
    ELSE LET n == CHOOSE n \in 1..(Cardinality(used) + 1) : n \notin used
         IN  <<n>> \o FreshIds(used \cup {n}, k - 1)

generate_ids(k) == FreshIds({events[i].id : i \in DOMAIN events}, k)

generate_id == generate_ids(1)[1]

\* the Database the operations act on (self in core/storage.py)
db == [sessions |-> sessions, events |-> events, snapshots |-> snapshots]

\* Database.get_session
get_session(self, session_id) ==
    IF session_id \notin DOMAIN self.sessions THEN None
    ELSE LET row == self.sessions[session_id] IN
         Some(RagSession(row.id, row.query, fromisoformat(row.created_at),
                         IF row.completed_at = None THEN None
                         ELSE Some(fromisoformat(row.completed_at[1])),
                         row.total_cost, row.total_duration_ms, row.model))

\* ORDER BY created_at DESC: the orders SQLite may return the session ids
\* in; rows with equal created_at texts come in an order it does not define
SessionOrders(self) ==
    {o \in [1..Cardinality(DOMAIN self.sessions) -> DOMAIN self.sessions] :
        /\ \A i, j \in DOMAIN o : i # j => o[i] # o[j]
        /\ \A i, j \in DOMAIN o :
              i < j => ~TextLess(self.sessions[o[i]].created_at,
                                 self.sessions[o[j]].created_at)}

\* LIMIT ? OFFSET ? on an order of n rows: the rows offset + 1 .. offset +
\* limit that exist
PageRows(n, limit, offset) ==
    {i \in 1..n : offset < i /\ i <= offset + limit}

\* Database.list_sessions: the lists it may return
list_sessions(self, limit, offset) ==
    {[i \in 1..Cardinality(PageRows(Len(o), limit, offset)) |->
         get_session(self, o[offset + i])[1]] : o \in SessionOrders(self)}

\* SELECT ... WHERE session_id = ?: the matching rows in rowid order
EventsOfSession(self, session_id) ==
    SelectSeq(self.events, LAMBDA r : r.session_id = session_id)

\* one row put into an already ordered sequence, behind every row whose
\* timestamp is not greater (rows with equal timestamps keep rowid order)
RECURSIVE InsertByTimestamp(_, _)
InsertByTimestamp(sorted, row) ==
    IF sorted = <<>> THEN <<row>>
    ELSE IF TextLess(row.timestamp, Head(sorted).timestamp)
         THEN <<row>> \o sorted
         ELSE <<Head(sorted)>> \o InsertByTimestamp(Tail(sorted), row)

\* ORDER BY timestamp ASC
RECURSIVE OrderByTimestamp(_)
OrderByTimestamp(rows) ==
    IF rows = <<>> THEN <<>>
    ELSE InsertByTimestamp(OrderByTimestamp(SubSeq(rows, 1, Len(rows) - 1)),
                           rows[Len(rows)])

\* the loop of get_events: each row overwrites the slot of its type
RECURSIVE FillSlots(_, _)
FillSlots(slots, rows) ==
    IF rows = <<>> THEN slots
    ELSE FillSlots([slots EXCEPT ![Head(rows).event_type] =
                        Some(ParseEvent(json_loads(Head(rows).data)))],
                   Tail(rows))

\* get_events reading the rows ORDER BY timestamp DESC
get_events_desc(self, session_id) ==
    LET rows == OrderByTimestamp(EventsOfSession(self, session_id)) IN
    FillSlots([t \in EventTypes |-> None],
              [i \in 1..Len(rows) |-> rows[Len(rows) + 1 - i]])

\* get_events without the WHERE clause: the rows of every session
get_events_any_session(self, session_id) ==
    FillSlots([t \in EventTypes |-> None], OrderByTimestamp(self.events))

\* Database.get_events
get_events(self, session_id) ==
    FillSlots([t \in EventTypes |-> None],
              OrderByTimestamp(EventsOfSession(self, session_id)))

\* exact fractions for the proportional split
Frac(n, d) == [num |-> n, den |-> d]
FracAdd(a, b) == Frac(a.num * b.den + b.num * a.den, a.den * b.den)
FracEq(a, b) == a.num * b.den = b.num * a.den

\* SumCosts with the embedding cost left out
SumCostsWithoutEmbedding(embedding_cost, input_cost, output_cost) ==
    FracAdd(input_cost, output_cost)

\* total_cost = embedding_cost + input_cost + output_cost
SumCosts(embedding_cost, input_cost, output_cost) ==
    FracAdd(FracAdd(embedding_cost, input_cost), output_cost)

\* Database.get_cost_breakdown
get_cost_breakdown(self, session_id) ==
    LET evs == get_events(self, session_id)
        embedding_cost ==
            IF evs["retrieval"] # None
            THEN Frac(evs["retrieval"][1].embedding_cost, 1) ELSE Frac(0, 1)
        gen == evs["generation"][1]
        proportional ==
            evs["generation"] # None /\ gen.input_tokens # 0 /\ gen.output_tokens # 0
        total_tokens == gen.input_tokens + gen.output_tokens
        input_cost ==
            IF evs["generation"] = None THEN Frac(0, 1)
            ELSE IF proportional THEN Frac(gen.cost * gen.input_tokens, total_tokens)
            ELSE Frac(gen.cost, 2)
        output_cost ==
            IF evs["generation"] = None THEN Frac(0, 1)
            ELSE IF proportional THEN Frac(gen.cost * gen.output_tokens, total_tokens)
            ELSE Frac(gen.cost, 2)
    IN  [session_id |-> session_id,
         embedding_cost |-> embedding_cost,
         input_cost |-> input_cost,
         output_cost |-> output_cost,
         total_cost |-> SumCosts(embedding_cost, input_cost, output_cost)]

\* get_session_detail trusting the total the session row caches
get_session_detail_cached(self, session_id) ==
    IF get_session(self, session_id) = None THEN None
    ELSE LET evs == get_events(self, session_id)
             cached == get_session(self, session_id)[1].total_cost
         IN  Some([session |-> get_session(self, session_id)[1],
                   retrieval |-> evs["retrieval"],
                   prompt |-> evs["prompt"],
                   generation |-> evs["generation"],
                   cost_breakdown |->
                       IF cached = None THEN get_cost_breakdown(self, session_id)
                       ELSE [get_cost_breakdown(self, session_id) EXCEPT
                                !.total_cost = Frac(cached[1], 1)]])

\* Database.get_session_detail
get_session_detail(self, session_id) ==
    IF get_session(self, session_id) = None THEN None
    ELSE LET evs == get_events(self, session_id) IN
         Some([session |-> get_session(self, session_id)[1],
               retrieval |-> evs["retrieval"],
               prompt |-> evs["prompt"],
               generation |-> evs["generation"],
               cost_breakdown |-> get_cost_breakdown(self, session_id)])

\* Database.get_snapshot
get_snapshot(self, snapshot_id) ==
    IF snapshot_id \notin DOMAIN self.snapshots THEN None
    ELSE LET row == self.snapshots[snapshot_id] IN
         Some([id |-> row.id, session_id |-> row.session_id, query |-> row.query,
               chunks |-> json_loads(row.chunks), answer |-> row.answer,
               cost |-> row.cost, timestamp |-> fromisoformat(row.timestamp),
               tags |-> IF row.tags = None THEN <<>> ELSE json_loads(row.tags[1]),
               model |-> row.model])

\* ids of the snapshots returned by list_snapshots(self, limit):
\* ORDER BY timestamp DESC LIMIT ?
list_snapshots(self, limit) ==
    {k \in DOMAIN self.snapshots :
        Cardinality({j \in DOMAIN self.snapshots :
            TextLess(self.snapshots[k].timestamp, self.snapshots[j].timestamp)}) < limit}

-----------------------------------------------------------------------------
(* core/storage.py: writes *)

Call(op, arg, ret) == [op |-> op, arg |-> arg, ret |-> ret]

\* the row INSERT INTO sessions writes for a RagSession
SessionRow(session) ==
    [id |-> session.id,
     query |-> session.query,
     created_at |-> isoformat(session.created_at),
     completed_at |-> IF session.completed_at = None THEN None
                      ELSE Some(isoformat(session.completed_at[1])),
     total_cost |-> session.total_cost,
     total_duration_ms |-> session.total_duration_ms,
     model |-> session.model]

\* create_session as INSERT OR REPLACE: a duplicate id overwrites the row
create_session_replacing(session) ==
    /\ sessions' = Put(sessions, session.id, SessionRow(session))
    /\ last' = Call("create_session", session.id, "ok")
    /\ UNCHANGED <<calls, active_connections, foreign_keys, events, snapshots, cb, clock>>

\* Database.create_session
create_session(session) ==
    /\ IF session.id \in DOMAIN sessions
       THEN /\ last' = Call("create_session", session.id, "IntegrityError")
            /\ UNCHANGED sessions
       ELSE /\ sessions' = Put(sessions, session.id, SessionRow(session))
            /\ last' = Call("create_session", session.id, "ok")
    /\ UNCHANGED <<calls, active_connections, foreign_keys, events, snapshots, cb, clock>>

valid_fields == {"completed_at", "total_cost", "total_duration_ms", "model"}

\* update_session writing the whole row: an allow-listed field that is
\* not named is reset to NULL
UpdatedRowReplacing(row, updates) ==
    [f \in DOMAIN row |->
        IF f \in DOMAIN updates \cap valid_fields
        THEN IF f = "completed_at" /\ updates[f] # None
             THEN Some(isoformat(updates[f][1]))
             ELSE updates[f]
        ELSE IF f \in valid_fields THEN None ELSE row[f]]

\* the row of UPDATE sessions SET f = ? ... for the allow-listed names
UpdatedRow(row, updates) ==
    [f \in DOMAIN row |->
        IF f \in DOMAIN updates \cap valid_fields
        THEN IF f = "completed_at" /\ updates[f] # None
             THEN Some(isoformat(updates[f][1]))
             ELSE updates[f]
        ELSE row[f]]

\* the sessions table after Database.update_session
UpdateRows(table, session_id, updates) ==
    IF DOMAIN updates \cap valid_fields = {} \/ session_id \notin DOMAIN table
    THEN table
    ELSE [table EXCEPT ![session_id] = UpdatedRow(table[session_id], updates)]

\* update_session reporting success whenever a field was named, without
\* looking at the number of rows the UPDATE matched
UpdateResultIgnoringRowcount(table, session_id, updates) ==
    IF DOMAIN updates \cap valid_fields = {} THEN "False" ELSE "True"

\* what Database.update_session returns: cursor.rowcount > 0, or False
\* early when no allow-listed field is named
UpdateResult(table, session_id, updates) ==
    IF DOMAIN updates \cap valid_fields = {} THEN "False"
    ELSE IF session_id \in DOMAIN table THEN "True" ELSE "False"

\* Database.update_session
update_session(session_id, updates) ==
    /\ sessions' = UpdateRows(sessions, session_id, updates)
    /\ last' = Call("update_session", session_id,
                    UpdateResult(sessions, session_id, updates))
    /\ UNCHANGED <<calls, active_connections, foreign_keys, events, snapshots, cb, clock>>

\* ON DELETE SET NULL on snapshots.session_id, a NOT NULL column: with
\* enforcement on, the DELETE of a referenced session fails
SetNullFails(session_id) ==
    \E k \in DOMAIN snapshots : snapshots[k].session_id = session_id

\* delete_session as it would act were ON DELETE SET NULL carried out:
\* the snapshots of the deleted session lose their session_id
delete_session_set_null(session_id) ==
    /\ IF session_id \notin DOMAIN sessions
       THEN /\ last' = Call("delete_session", session_id, "False")
            /\ UNCHANGED <<sessions, events, snapshots>>
       ELSE /\ sessions' = Drop(sessions, session_id)
            /\ events' = SelectSeq(events, LAMBDA r : r.session_id # session_id)
            /\ snapshots' = [k \in DOMAIN snapshots |->
                   IF snapshots[k].session_id = session_id
                   THEN [snapshots[k] EXCEPT !.session_id = ""]
                   ELSE snapshots[k]]
            /\ last' = Call("delete_session", session_id, "True")
    /\ UNCHANGED <<calls, active_connections, foreign_keys, cb, clock>>

\* Database.delete_session
delete_session(session_id) ==
    /\ IF session_id \notin DOMAIN sessions
       THEN /\ last' = Call("delete_session", session_id, "False")
            /\ UNCHANGED <<sessions, events>>
       ELSE IF foreign_keys /\ SetNullFails(session_id)
       THEN /\ last' = Call("delete_session", session_id, "IntegrityError")
            /\ UNCHANGED <<sessions, events>>
       ELSE /\ sessions' = Drop(sessions, session_id)
            /\ events' = IF foreign_keys
                         THEN SelectSeq(events, LAMBDA r : r.session_id # session_id)
                         ELSE events
            /\ last' = Call("delete_session", session_id, "True")
    /\ UNCHANGED <<calls, active_connections, foreign_keys, snapshots, cb, clock>>

\* the outcome of the INSERT of store_event into the events table, given
\* the sessions table (parents): the error raised, or "ok"
InsertResult(table, parents, event) ==
    IF ~JsonSerializable(event.data) THEN "TypeError"
    ELSE IF \E i \in DOMAIN table : table[i].id = event.id THEN "IntegrityError"
    ELSE IF foreign_keys /\ event.session_id \notin DOMAIN parents THEN "IntegrityError"
    ELSE "ok"

\* the events table after the INSERT of store_event
InsertEvent(table, parents, event) ==
    IF InsertResult(table, parents, event) # "ok" THEN table
    ELSE Append(table, [id |-> event.id,
                        session_id |-> event.session_id,
                        event_type |-> event.event_type,
                        timestamp |-> isoformat(event.timestamp),
                        data |-> json_dumps(event.data)])

\* Database.store_event
store_event(event) ==
    /\ events' = InsertEvent(events, sessions, event)
    /\ last' = Call("store_event", event.session_id,
                    InsertResult(events, sessions, event))
    /\ UNCHANGED <<calls, active_connections, foreign_keys, sessions, snapshots, cb, clock>>

\* the row create_snapshot inserts for a snapshot
SnapshotRow(snapshot) ==
    [id |-> snapshot.id,
     session_id |-> snapshot.session_id,
     query |-> snapshot.query,
     chunks |-> json_dumps(snapshot.chunks),
     answer |-> snapshot.answer,
     cost |-> snapshot.cost,
     timestamp |-> isoformat(snapshot.timestamp),
     tags |-> Some(json_dumps(snapshot.tags)),
     model |-> snapshot.model]

\* Database.create_snapshot
create_snapshot(snapshot) ==
    /\ IF snapshot.id \in DOMAIN snapshots
          \/ (foreign_keys /\ snapshot.session_id \notin DOMAIN sessions)
       THEN /\ last' = Call("create_snapshot", snapshot.id, "IntegrityError")
            /\ UNCHANGED snapshots
       ELSE /\ snapshots' = Put(snapshots, snapshot.id, SnapshotRow(snapshot))
            /\ last' = Call("create_snapshot", snapshot.id, "ok")
    /\ UNCHANGED <<calls, active_connections, foreign_keys, sessions, events, cb, clock>>

\* Database.delete_snapshot
delete_snapshot(snapshot_id) ==
    /\ IF snapshot_id \in DOMAIN snapshots
       THEN /\ snapshots' = Drop(snapshots, snapshot_id)
            /\ last' = Call("delete_snapshot", snapshot_id, "True")
       ELSE /\ UNCHANGED snapshots
            /\ last' = Call("delete_snapshot", snapshot_id, "False")
    /\ UNCHANGED <<calls, active_connections, foreign_keys, sessions, events, cb, clock>>

-----------------------------------------------------------------------------
(* core/cost.py; prices in nano-dollars per token *)

\* a price table in which gpt-4 costs what gpt-3.5-turbo costs
PRICING_flat ==
    [m \in {"gpt-4", "gpt-4-turbo-preview", "gpt-4-32k", "gpt-3.5-turbo",
            "gpt-3.5-turbo-16k", "text-embedding-ada-002",
            "text-embedding-3-small", "text-embedding-3-large"} |->
        CASE m = "gpt-4" -> [input |-> 1500, output |-> 2000]
          [] m = "gpt-4-turbo-preview" -> [input |-> 10000, output |-> 30000]
          [] m = "gpt-4-32k" -> [input |-> 60000, output |-> 120000]
          [] m = "gpt-3.5-turbo" -> [input |-> 1500, output |-> 2000]
          [] m = "gpt-3.5-turbo-16k" -> [input |-> 3000, output |-> 4000]
          [] m = "text-embedding-ada-002" -> [input |-> 100]
          [] m = "text-embedding-3-small" -> [input |-> 20]
          [] m = "text-embedding-3-large" -> [input |-> 130]]

PRICING ==
    [m \in {"gpt-4", "gpt-4-turbo-preview", "gpt-4-32k", "gpt-3.5-turbo",
            "gpt-3.5-turbo-16k", "text-embedding-ada-002",
            "text-embedding-3-small", "text-embedding-3-large"} |->
        CASE m = "gpt-4" -> [input |-> 30000, output |-> 60000]
          [] m = "gpt-4-turbo-preview" -> [input |-> 10000, output |-> 30000]
          [] m = "gpt-4-32k" -> [input |-> 60000, output |-> 120000]
          [] m = "gpt-3.5-turbo" -> [input |-> 1500, output |-> 2000]
          [] m = "gpt-3.5-turbo-16k" -> [input |-> 3000, output |-> 4000]
          [] m = "text-embedding-ada-002" -> [input |-> 100]
          [] m = "text-embedding-3-small" -> [input |-> 20]
          [] m = "text-embedding-3-large" -> [input |-> 130]]

DEFAULT_PRICING == [input |-> 1500, output |-> 2000]

\* PRICING.get(model, default)
PricingGet(model, default) ==
    IF model \in DOMAIN PRICING THEN PRICING[model] ELSE default

\* the texts of the model ("", "q1", "p1", "a1", "Unknown query"): their
\* length in characters and the number of tokens the encoding gives them

CharLen(text) ==
    CASE text = "" -> 0
      [] text = "q1" -> 12
      [] text = "p1" -> 22
      [] text = "a1" -> 9
      [] text = "Unknown query" -> 13

EncodeLen(text) ==
    CASE text = "" -> 0
      [] text = "q1" -> 2
      [] text = "p1" -> 4
      [] text = "a1" -> 3
      [] text = "Unknown query" -> 2

\* a count_tokens whose fallback rounds up
count_tokens_round_up(text, model, tokenizer) ==
    IF text = "" THEN 0
    ELSE IF tokenizer = "ok" THEN EncodeLen(text)
    ELSE (CharLen(text) + 3) \div 4

\* CostCalculator.count_tokens; tokenizer is "ok" or "fails" (get_tokenizer
\* or encode raises)
count_tokens(text, model, tokenizer) ==
    IF text = "" THEN 0
    ELSE IF tokenizer = "ok" THEN EncodeLen(text)
    ELSE CharLen(text) \div 4

\* CostCalculator.get_tokenizer: the _tokenizer_cache (the models it has an
\* encoding for) after the call; "fails" is tiktoken raising while the
\* encoding is loaded, which stores nothing
get_tokenizer(tokenizer_cache, model, tokenizer) ==
    IF model \in tokenizer_cache \/ tokenizer = "fails" THEN tokenizer_cache
    ELSE tokenizer_cache \cup {model}

\* the _tokenizer_cache after count_tokens: an empty text returns before
\* get_tokenizer is called
TokenizerCacheAfter(tokenizer_cache, text, model, tokenizer) ==
    IF text = "" THEN tokenizer_cache
    ELSE get_tokenizer(tokenizer_cache, model, tokenizer)

\* CostCalculator.calculate_embedding_cost
calculate_embedding_cost(num_tokens, model) ==
    num_tokens * PricingGet(model, [input |-> 100]).input

\* a get_pricing_info that falls back to the table key a name extends
get_pricing_info_by_family(model) ==
    IF model \in DOMAIN PRICING THEN PRICING[model]
    ELSE IF model = "gpt-4-0613" THEN PRICING["gpt-4"]
    ELSE DEFAULT_PRICING

\* CostCalculator.get_pricing_info
get_pricing_info(model) == PricingGet(model, DEFAULT_PRICING)

\* a calculate_generation_cost that charges the default output rate when
\* the entry has none
calculate_generation_cost_default_output(input_tokens, output_tokens, model) ==
    LET pricing == PricingGet(model, DEFAULT_PRICING)
        output_cost_per_1k ==
            IF "output" \in DOMAIN pricing THEN pricing.output
            ELSE DEFAULT_PRICING.output
    IN  <<input_tokens * pricing.input, output_tokens * output_cost_per_1k,
          input_tokens * pricing.input + output_tokens * output_cost_per_1k>>

\* a calculate_generation_cost that counts a request of no tokens as one
\* input token
calculate_generation_cost_minimum(input_tokens, output_tokens, model) ==
    LET pricing == PricingGet(model, DEFAULT_PRICING)
        output_cost_per_1k ==
            IF "output" \in DOMAIN pricing THEN pricing.output ELSE pricing.input
        billed == IF input_tokens + output_tokens = 0 THEN 1 ELSE input_tokens
    IN  <<billed * pricing.input, output_tokens * output_cost_per_1k,
          billed * pricing.input + output_tokens * output_cost_per_1k>>

\* CostCalculator.calculate_generation_cost
calculate_generation_cost(input_tokens, output_tokens, model) ==
    LET pricing == PricingGet(model, DEFAULT_PRICING)
        input_cost_per_1k == pricing.input
        output_cost_per_1k ==
            IF "output" \in DOMAIN pricing THEN pricing.output ELSE pricing.input
        input_cost == input_tokens * input_cost_per_1k
        output_cost == output_tokens * output_cost_per_1k
    IN  <<input_cost, output_cost, input_cost + output_cost>>

-----------------------------------------------------------------------------
(* core/capture.py *)

utcnow == Datetime(clock, None)

\* CaptureSession.__init__
CaptureSession(session_id, query) ==
    [session_id |-> session_id, query |-> query, created_at |-> utcnow,
     retrieval_event |-> None, prompt_event |-> None, generation_event |-> None]

\* Python values of a document's metadata; a float (a score) is counted in
\* hundredths
PyNone == [py |-> "NoneType", v |-> 0]
PyInt(n) == [py |-> "int", v |-> n]
PyFloat(hundredths) == [py |-> "float", v |-> hundredths]
PyDict(mapping) == [py |-> "dict", v |-> mapping]

\* the documents capture_retrieval is handed: an object with page_content
\* (and perhaps a metadata attribute), a dict with the key page_content (and
\* perhaps the key metadata), or a bare string; metadata is None when the
\* attribute or the key is absent
ObjectDoc(text, metadata) == [shape |-> "object", text |-> text, metadata |-> metadata]
DictDoc(text, metadata) == [shape |-> "dict", text |-> text, metadata |-> metadata]
StrDoc(text) == [shape |-> "str", text |-> text, metadata |-> None]

\* the metadata the loop works with: doc.metadata, doc.get('metadata', {}),
\* or {}
MetadataOf(doc) ==
    IF doc.shape = "str" \/ doc.metadata = None THEN PyDict(<<>>)
    ELSE doc.metadata[1]

\* metadata.get(key, default)
MetaGet(mapping, key, default) ==
    IF key \in DOMAIN mapping THEN mapping[key] ELSE default

\* the texts pydantic reads as an int, and the int
IntTexts == {"5"}
IntOfText(text) == CASE text = "5" -> 5

\* the values ChunkMetadata accepts: Optional[str] for source and
\* document_id, Optional[int] for page (an int, or a text that reads as one)
ValidOptionalStr(value) == value.py \in {"NoneType", "str"}
ValidOptionalInt(value) ==
    \/ value.py \in {"NoneType", "int"}
    \/ value.py = "str" /\ value.v \in IntTexts

\* the exception the loop body raises for one document ("" for none):
\* metadata.get on a value that is not a mapping, or ChunkMetadata(...)
\* rejecting a field
ChunkError(doc) ==
    IF MetadataOf(doc).py # "dict" THEN "AttributeError"
    ELSE LET metadata == MetadataOf(doc).v IN
         IF /\ ValidOptionalStr(MetaGet(metadata, "source", PyNone))
            /\ ValidOptionalInt(MetaGet(metadata, "page", PyNone))
            /\ ValidOptionalStr(MetaGet(metadata, "doc_id",
                                        MetaGet(metadata, "id", PyNone)))
         THEN "" ELSE "ValidationError"

\* the first exception of the loop over the documents ("" for none)
RetrievalError(documents) ==
    IF \A i \in DOMAIN documents : ChunkError(documents[i]) = "" THEN ""
    ELSE ChunkError(documents[CHOOSE i \in DOMAIN documents :
                                 /\ ChunkError(documents[i]) # ""
                                 /\ \A j \in 1..(i - 1) : ChunkError(documents[j]) = ""])

\* an Optional[str] or Optional[int] field as pydantic stores it
OptionalField(value) ==
    IF value.py = "NoneType" THEN None
    ELSE IF value.py = "str" /\ value.v \in IntTexts THEN Some(IntOfText(value.v))
    ELSE Some(value.v)

OptionalStrField(value) == IF value.py = "NoneType" THEN None ELSE Some(value.v)

\* the chunk capture_retrieval builds for one document whose metadata
\* raises nothing
ChunkOf(doc) ==
    LET metadata == MetadataOf(doc).v
        score == MetaGet(metadata, "score", MetaGet(metadata, "similarity", PyFloat(0)))
    IN  [text |-> doc.text,
         metadata |->
            [source |-> OptionalStrField(MetaGet(metadata, "source", PyNone)),
             page |-> OptionalField(MetaGet(metadata, "page", PyNone)),
             score |-> IF score.py = "float" THEN score.v
                       ELSE IF score.py = "int" THEN 100 * score.v
                       ELSE 0,
             document_id |-> OptionalStrField(MetaGet(metadata, "doc_id",
                                                MetaGet(metadata, "id", PyNone)))]]

\* the loop of capture_retrieval with the chunks in reverse order
ExtractChunksReversed(documents) ==
    [i \in DOMAIN documents |-> ChunkOf(documents[Len(documents) + 1 - i])]

\* the loop of capture_retrieval: one chunk per document, in order
ExtractChunks(documents) ==
    [i \in DOMAIN documents |-> ChunkOf(documents[i])]

\* the slot of a phase: self.retrieval_event, self.prompt_event or
\* self.generation_event
PhaseEvent(cap, event_type) ==
    CASE event_type = "retrieval" -> cap.retrieval_event
      [] event_type = "prompt" -> cap.prompt_event
      [] event_type = "generation" -> cap.generation_event

\* a capture_retrieval that keeps the event of the first call
capture_retrieval_keep_first(cap, documents, duration_ms, embedding_model, tokenizer) ==
    LET query_tokens == count_tokens(cap.query, "gpt-3.5-turbo", tokenizer) IN
    IF cap.retrieval_event # None \/ RetrievalError(documents) # "" THEN cap
    ELSE [cap EXCEPT !.retrieval_event =
             Some([session_id |-> cap.session_id,
                   timestamp |-> utcnow,
                   chunks |-> ExtractChunks(documents),
                   duration_ms |-> duration_ms,
                   embedding_tokens |-> query_tokens,
                   embedding_cost |-> calculate_embedding_cost(query_tokens, embedding_model),
                   retrieval_method |-> "vector_search"])]

\* CaptureSession.capture_retrieval: the aggregator after the call; an
\* exception of the loop leaves it as it was
capture_retrieval(cap, documents, duration_ms, embedding_model, tokenizer) ==
    LET query_tokens == count_tokens(cap.query, "gpt-3.5-turbo", tokenizer) IN
    IF RetrievalError(documents) # "" THEN cap
    ELSE [cap EXCEPT !.retrieval_event =
             Some([session_id |-> cap.session_id,
                   timestamp |-> utcnow,
                   chunks |-> ExtractChunks(documents),
                   duration_ms |-> duration_ms,
                   embedding_tokens |-> query_tokens,
                   embedding_cost |-> calculate_embedding_cost(query_tokens, embedding_model),
                   retrieval_method |-> "vector_search"])]

\* CaptureSession.capture_prompt
capture_prompt(cap, prompt, model, tokenizer) ==
    [cap EXCEPT !.prompt_event =
        Some([session_id |-> cap.session_id,
              timestamp |-> utcnow,
              prompt |-> prompt,
              token_count |-> count_tokens(prompt, model, tokenizer),
              template_name |-> None])]

\* a capture_generation that starts the aggregator afresh: created_at is
\* read again and the prompt slot is emptied
capture_generation_afresh(cap, response, model, input_tokens, output_tokens, duration_ms) ==
    [cap EXCEPT !.created_at = utcnow,
                !.prompt_event = None,
                !.generation_event =
        Some([session_id |-> cap.session_id,
              timestamp |-> utcnow,
              response |-> response,
              model |-> model,
              input_tokens |-> input_tokens,
              output_tokens |-> output_tokens,
              cost |-> calculate_generation_cost(input_tokens, output_tokens, model)[3],
              duration_ms |-> duration_ms])]

\* CaptureSession.capture_generation
capture_generation(cap, response, model, input_tokens, output_tokens, duration_ms) ==
    [cap EXCEPT !.generation_event =
        Some([session_id |-> cap.session_id,
              timestamp |-> utcnow,
              response |-> response,
              model |-> model,
              input_tokens |-> input_tokens,
              output_tokens |-> output_tokens,
              cost |-> calculate_generation_cost(input_tokens, output_tokens, model)[3],
              duration_ms |-> duration_ms])]

\* a get_total_duration that adds up the durations that are present
get_total_duration_present(cap) ==
    Some((IF cap.retrieval_event # None THEN cap.retrieval_event[1].duration_ms ELSE 0)
         + (IF cap.generation_event # None THEN cap.generation_event[1].duration_ms ELSE 0))

\* CaptureSession.get_total_duration
get_total_duration(cap) ==
    IF cap.retrieval_event = None \/ cap.generation_event = None THEN None
    ELSE Some(cap.retrieval_event[1].duration_ms + cap.generation_event[1].duration_ms)

\* a get_total_cost that only counts the generation
get_total_cost_generation(cap) ==
    IF cap.generation_event # None THEN cap.generation_event[1].cost ELSE 0

\* CaptureSession.get_total_cost
get_total_cost(cap) ==
    (IF cap.retrieval_event # None THEN cap.retrieval_event[1].embedding_cost ELSE 0)
    + (IF cap.generation_event # None THEN cap.generation_event[1].cost ELSE 0)

\* CaptureSession.to_session
to_session(cap) ==
    RagSession(cap.session_id, cap.query, cap.created_at, Some(utcnow),
               Some(get_total_cost(cap)), get_total_duration(cap),
               IF cap.generation_event # None
               THEN Some(cap.generation_event[1].model) ELSE None)

\* a to_stored_events that lists the events by the time of their capture
to_stored_events_by_time(cap) ==
    LET ids == generate_ids(3)
        wrap(event_type, id) ==
            IF PhaseEvent(cap, event_type) # None
            THEN <<StoredEvent(id, cap.session_id, event_type,
                               PhaseEvent(cap, event_type)[1].timestamp,
                               model_dump(PhaseEvent(cap, event_type)[1]))>>
            ELSE <<>>
    IN  IF /\ cap.retrieval_event # None /\ cap.generation_event # None
           /\ Instant(cap.generation_event[1].timestamp)
                  < Instant(cap.retrieval_event[1].timestamp)
        THEN wrap("generation", ids[3]) \o wrap("prompt", ids[2])
                 \o wrap("retrieval", ids[1])
        ELSE wrap("retrieval", ids[1]) \o wrap("prompt", ids[2])
                 \o wrap("generation", ids[3])

\* CaptureSession.to_stored_events
to_stored_events(cap) ==
    LET ids == generate_ids(3) IN
    (IF cap.retrieval_event # None
     THEN <<StoredEvent(ids[1], cap.session_id, "retrieval",
                        cap.retrieval_event[1].timestamp,
                        model_dump(cap.retrieval_event[1]))>>
     ELSE <<>>)
    \o
    (IF cap.prompt_event # None
     THEN <<StoredEvent(ids[2], cap.session_id, "prompt",
                        cap.prompt_event[1].timestamp,
                        model_dump(cap.prompt_event[1]))>>
     ELSE <<>>)
    \o
    (IF cap.generation_event # None
     THEN <<StoredEvent(ids[3], cap.session_id, "generation",
                        cap.generation_event[1].timestamp,
                        model_dump(cap.generation_event[1]))>>
     ELSE <<>>)

-----------------------------------------------------------------------------
(* langchain/middleware.py *)

\* RagDebuggerCallback.__init__
RagDebuggerCallback(session_id, query, auto_save) ==
    [session_id |-> session_id, query |-> query, auto_save |-> auto_save,
     prompts |-> <<>>, capture |-> None]

\* not self.query
NoQuery(h) == h.query = None \/ h.query = Some("")

\* the ids uuid4 gives to the sessions the handler creates
GeneratedSessionIds == {"u1"}

\* the handler after _ensure_capture_session, given the sessions table
EnsureHandler(h, table) ==
    IF h.capture # None THEN h
    ELSE LET query == IF NoQuery(h) THEN "Unknown query" ELSE h.query[1]
             session_id ==
                 IF h.session_id = None
                 THEN CHOOSE id \in GeneratedSessionIds : id \notin DOMAIN table
                 ELSE h.session_id[1]
         IN  [h EXCEPT !.query = Some(query),
                       !.session_id = Some(session_id),
                       !.capture = Some(CaptureSession(session_id, query))]

\* the sessions table after _ensure_capture_session: a handler made
\* without a session id creates its session
EnsureSessions(h, table) ==
    IF h.capture # None \/ h.session_id # None THEN table
    ELSE LET created == EnsureHandler(h, table) IN
         Put(table, created.session_id[1],
             SessionRow(RagSession(created.session_id[1], created.query[1],
                                   utcnow, None, None, None, None)))

\* the keyword arguments save() hands to update_session
SaveUpdates(cap) ==
    LET session == to_session(cap) IN
    [completed_at |-> session.completed_at,
     total_cost |-> session.total_cost,
     total_duration_ms |-> session.total_duration_ms,
     model |-> session.model]

\* the loop of save(): store_event for each event, until one raises
RECURSIVE StoreAll(_, _, _)
StoreAll(table, parents, evs) ==
    IF evs = <<>> THEN table
    ELSE IF InsertResult(table, parents, Head(evs)) # "ok" THEN table
    ELSE StoreAll(InsertEvent(table, parents, Head(evs)), parents, Tail(evs))

\* how the loop of save() ends: "ok", or the error the except clause logs
RECURSIVE StoreAllResult(_, _, _)
StoreAllResult(table, parents, evs) ==
    IF evs = <<>> THEN "ok"
    ELSE IF InsertResult(table, parents, Head(evs)) # "ok"
         THEN InsertResult(table, parents, Head(evs))
    ELSE StoreAllResult(InsertEvent(table, parents, Head(evs)), parents, Tail(evs))

\* the sessions and events tables after save() of handler h
SavedSessions(h, table) ==
    IF h.capture = None THEN table
    ELSE UpdateRows(table, h.capture[1].session_id, SaveUpdates(h.capture[1]))

SavedEvents(h, table, parents) ==
    IF h.capture = None THEN table
    ELSE StoreAll(table, parents, to_stored_events(h.capture[1]))

SaveResult(h, table, parents) ==
    IF h.capture = None THEN "no capture"
    ELSE StoreAllResult(table, parents, to_stored_events(h.capture[1]))

\* RagDebuggerCallback.on_retriever_start
on_retriever_start(query) ==
    /\ cb' = [cb EXCEPT !.query = IF NoQuery(cb) THEN Some(query) ELSE @]
    /\ last' = Call("on_retriever_start", "", "ok")
    /\ UNCHANGED <<calls, active_connections, foreign_keys, sessions, events, snapshots, clock>>

\* RagDebuggerCallback.on_retriever_end
on_retriever_end(documents, duration_ms, tokenizer) ==
    LET h == EnsureHandler(cb, sessions) IN
    /\ sessions' = EnsureSessions(cb, sessions)
    /\ cb' = [h EXCEPT !.capture =
                 Some(capture_retrieval(h.capture[1], documents, duration_ms,
                                        "text-embedding-ada-002", tokenizer))]
    /\ last' = Call("on_retriever_end", h.session_id[1], "ok")
    /\ UNCHANGED <<calls, active_connections, foreign_keys, events, snapshots, clock>>

\* RagDebuggerCallback.on_llm_start; model is what _extract_model_name
\* finds in serialized
on_llm_start(model, prompts, tokenizer) ==
    LET h == EnsureHandler([cb EXCEPT !.prompts = @ \o prompts], sessions) IN
    /\ sessions' = EnsureSessions(cb, sessions)
    /\ cb' = IF prompts = <<>> THEN h
             ELSE [h EXCEPT !.capture =
                      Some(capture_prompt(h.capture[1], prompts[1], model, tokenizer))]
    /\ last' = Call("on_llm_start", h.session_id[1], "ok")
    /\ UNCHANGED <<calls, active_connections, foreign_keys, events, snapshots, clock>>

\* RagDebuggerCallback.on_llm_end; response is [text, token_usage, model_name]
on_llm_end(response, duration_ms, tokenizer) ==
    LET h == EnsureHandler(cb, sessions)
        ensured == EnsureSessions(cb, sessions)
        model == IF response.model_name = None THEN "gpt-3.5-turbo"
                 ELSE response.model_name[1]
        prompt_tokens ==
            IF response.token_usage = None THEN 0
            ELSE response.token_usage[1].prompt_tokens
        completion_tokens ==
            IF response.token_usage = None THEN 0
            ELSE response.token_usage[1].completion_tokens
        input_tokens ==
            IF prompt_tokens = 0 /\ h.prompts # <<>>
            THEN count_tokens(h.prompts[1], model, tokenizer) ELSE prompt_tokens
        output_tokens ==
            IF completion_tokens = 0
            THEN count_tokens(response.text, model, tokenizer) ELSE completion_tokens
        captured ==
            [h EXCEPT !.capture =
                Some(capture_generation(h.capture[1], response.text, model,
                                        input_tokens, output_tokens, duration_ms))]
    IN
    /\ cb' = captured
    /\ IF h.auto_save
       THEN /\ sessions' = SavedSessions(captured, ensured)
            /\ events' = SavedEvents(captured, events, ensured)
            /\ last' = Call("on_llm_end", h.session_id[1],
                            SaveResult(captured, events, ensured))
       ELSE /\ sessions' = ensured
            /\ events' = events
            /\ last' = Call("on_llm_end", h.session_id[1], "not saved")
    /\ UNCHANGED <<calls, active_connections, foreign_keys, snapshots, clock>>

\* RagDebuggerCallback.save
save ==
    /\ sessions' = SavedSessions(cb, sessions)
    /\ events' = SavedEvents(cb, events, sessions)
    /\ last' = Call("save",
                    IF cb.capture = None THEN "" ELSE cb.capture[1].session_id,
                    SaveResult(cb, events, sessions))
    /\ UNCHANGED <<calls, active_connections, foreign_keys, snapshots, cb, clock>>

\* time passes
Tick ==
    /\ clock' = clock + 1
    /\ UNCHANGED <<calls, active_connections, foreign_keys, sessions, events, snapshots, cb, last>>

-----------------------------------------------------------------------------
(* api/routes.py *)

\* the updates dict the PATCH handler builds: the body fields that are
\* not None
BodyUpdates(body) ==
    [f \in {g \in DOMAIN body : body[g] # None} |-> body[f]]

\* PATCH /sessions/{session_id} (update_session of api/routes.py): the
\* status of the response
routes_update_session(session_id, body) ==
    /\ IF DOMAIN BodyUpdates(body) = {}
       THEN /\ last' = Call("PATCH /sessions", session_id, "400")
            /\ UNCHANGED sessions
       ELSE /\ sessions' = UpdateRows(sessions, session_id, BodyUpdates(body))
            /\ last' = Call("PATCH /sessions", session_id,
                   IF UpdateResult(sessions, session_id, BodyUpdates(body)) = "True"
                   THEN "200" ELSE "404")
    /\ UNCHANGED <<calls, active_connections, foreign_keys, events, snapshots, cb, clock>>

\* Snapshot's default id: an id no stored snapshot has
generate_snapshot_id ==
    CHOOSE n \in 1..(Cardinality(DOMAIN snapshots) + 1) : n \notin DOMAIN snapshots

\* a Snapshot that drops the repeated tags of the caller's list
SnapshotOfUniqueTags(detail, session_id, tags) ==
    [id |-> generate_snapshot_id,
     session_id |-> session_id,
     query |-> detail.session.query,
     chunks |-> IF detail.retrieval # None THEN detail.retrieval[1].chunks ELSE <<>>,
     answer |-> IF detail.generation # None THEN detail.generation[1].response ELSE "",
     cost |-> IF detail.session.total_cost # None THEN detail.session.total_cost[1] ELSE 0,
     timestamp |-> utcnow,
     tags |-> SelectSeq([i \in DOMAIN tags |->
                           IF \E j \in 1..(i - 1) : tags[j] = tags[i]
                           THEN "" ELSE tags[i]],
                        LAMBDA t : t # ""),
     model |-> detail.session.model]

\* a Snapshot that takes its cost from the recomputed cost breakdown and
\* its model from the generation event
SnapshotOfBreakdown(detail, session_id, tags) ==
    [id |-> generate_snapshot_id,
     session_id |-> session_id,
     query |-> detail.session.query,
     chunks |-> IF detail.retrieval # None THEN detail.retrieval[1].chunks ELSE <<>>,
     answer |-> IF detail.generation # None THEN detail.generation[1].response ELSE "",
     cost |-> detail.cost_breakdown.total_cost.num \div detail.cost_breakdown.total_cost.den,
     timestamp |-> utcnow,
     tags |-> tags,
     model |-> IF detail.generation # None THEN Some(detail.generation[1].model) ELSE None]

\* the Snapshot the POST handler and the snapshot save command build from
\* a session detail
SnapshotOf(detail, session_id, tags) ==
    [id |-> generate_snapshot_id,
     session_id |-> session_id,
     query |-> detail.session.query,
     chunks |-> IF detail.retrieval # None THEN detail.retrieval[1].chunks ELSE <<>>,
     answer |-> IF detail.generation # None THEN detail.generation[1].response ELSE "",
     cost |-> IF detail.session.total_cost # None THEN detail.session.total_cost[1] ELSE 0,
     timestamp |-> utcnow,
     tags |-> tags,
     model |-> detail.session.model]

\* a POST /snapshots that stores a snapshot without looking the session up
routes_create_snapshot_unchecked(session_id, tags) ==
    /\ snapshots' = Put(snapshots, generate_snapshot_id,
           SnapshotRow([id |-> generate_snapshot_id, session_id |-> session_id,
                        query |-> "", chunks |-> <<>>, answer |-> "", cost |-> 0,
                        timestamp |-> utcnow, tags |-> tags, model |-> None]))
    /\ last' = Call("POST /snapshots", session_id, "201")
    /\ UNCHANGED <<calls, active_connections, foreign_keys, sessions, events, cb, clock>>

\* POST /snapshots (create_snapshot of api/routes.py): the status of the
\* response
routes_create_snapshot(session_id, tags) ==
    LET session_detail == get_session_detail(db, session_id) IN
    /\ IF session_detail = None
       THEN /\ last' = Call("POST /snapshots", session_id, "404")
            /\ UNCHANGED snapshots
       ELSE /\ snapshots' = Put(snapshots, generate_snapshot_id,
                   SnapshotRow(SnapshotOf(session_detail[1], session_id, tags)))
            /\ last' = Call("POST /snapshots", session_id, "201")
    /\ UNCHANGED <<calls, active_connections, foreign_keys, sessions, events, cb, clock>>

-----------------------------------------------------------------------------
(* cli/main.py *)

\* the clear command: after the confirmation, DELETE FROM sessions and
\* DELETE FROM snapshots in one transaction.  With enforcement on, the
\* deleted sessions take their events along and a snapshot that refers to
\* a deleted session makes the DELETE fail (nothing is committed)
clear(confirmed) ==
    /\ IF ~confirmed
       THEN /\ last' = Call("clear", IF confirmed THEN "y" ELSE "N", "Cancelled")
            /\ UNCHANGED <<sessions, events, snapshots>>
       ELSE IF foreign_keys /\ \E id \in DOMAIN sessions : SetNullFails(id)
       THEN /\ last' = Call("clear", IF confirmed THEN "y" ELSE "N", "Error")
            /\ UNCHANGED <<sessions, events, snapshots>>
       ELSE /\ sessions' = <<>>
            /\ events' = IF foreign_keys
                         THEN SelectSeq(events,
                                        LAMBDA r : r.session_id \notin DOMAIN sessions)
                         ELSE events
            /\ snapshots' = <<>>
            /\ last' = Call("clear", IF confirmed THEN "y" ELSE "N", "ok")
    /\ UNCHANGED <<calls, active_connections, foreign_keys, cb, clock>>


\* the snapshot save command; session_id "last" stands for the first
\* session of list_sessions(limit=1)
snapshot_save(session_id, tag) ==
    \E page \in list_sessions(db, 1, 0) :
        LET id == IF session_id # "last" THEN session_id
                  ELSE IF page = <<>> THEN "" ELSE page[1].id
            detail == get_session_detail(db, id)
        IN
        /\ IF session_id = "last" /\ page = <<>>
           THEN /\ last' = Call("snapshot save", session_id, "No sessions found.")
                /\ UNCHANGED snapshots
           ELSE IF detail = None
           THEN /\ last' = Call("snapshot save", session_id, "not found")
                /\ UNCHANGED snapshots
           ELSE /\ snapshots' = Put(snapshots, generate_snapshot_id,
                       SnapshotRow(SnapshotOf(detail[1], id, tag)))
                /\ last' = Call("snapshot save", session_id, "created")
        /\ UNCHANGED <<calls, active_connections, foreign_keys, sessions, events, cb, clock>>

-----------------------------------------------------------------------------
(* Spec: the store driven directly, sessions, events and snapshots *)

SessionIds == {"s1", "s2"}

SnapshotIds == 1..MaxSnapshots

StoreSessions ==
    {RagSession(id, "q1", Datetime(1, None), None, None, None, None) :
        id \in SessionIds}

StoreUpdates ==
    {[total_cost |-> Some(9), metadata |-> Some("completed")],
     [model |-> Some("gpt-4"), completed_at |-> Some(Datetime(2, None))],
     [metadata |-> Some("completed")]}

GenerationData(session_id, ts, input_tokens, output_tokens, cost) ==
    [session_id |-> session_id, timestamp |-> ts, response |-> "a1",
     model |-> "gpt-4", input_tokens |-> input_tokens,
     output_tokens |-> output_tokens, cost |-> cost, duration_ms |-> 5]

RetrievalData(session_id, ts, embedding_cost) ==
    [session_id |-> session_id, timestamp |-> ts, chunks |-> <<ChunkOf(StrDoc("c1"))>>,
     duration_ms |-> 3, embedding_tokens |-> 2, embedding_cost |-> embedding_cost,
     retrieval_method |-> "vector_search"]

PromptData(session_id, ts) ==
    [session_id |-> session_id, timestamp |-> ts, prompt |-> "p1",
     token_count |-> 4, template_name |-> None]

\* a StoredEvent wrapping a phase event, as the log-event request and
\* ui/generate_test_data_v2.py build it
Wrap(event_type, data) ==
    StoredEvent(generate_id, data.session_id, event_type, data.timestamp,
                model_dump_json(data))

StoreEvents ==
    {Wrap("generation", GenerationData(id, Datetime(1, None), 1, 2, 150000)) :
        id \in {"s1"}}

StoreSnapshots ==
    {[id |-> k, session_id |-> id, query |-> "q1", chunks |-> <<ChunkOf(StrDoc("c1"))>>,
      answer |-> "a1", cost |-> 7, timestamp |-> Datetime(2, None),
      tags |-> <<"baseline">>, model |-> None] :
        k \in SnapshotIds, id \in {"s1"}}

\* the bodies of PATCH requests: no field, a total cost, or a completion
\* time (one that lies before the created_at of StoreSessions)
PatchBodies ==
    {[completed_at |-> None, total_cost |-> tc, total_duration_ms |-> None,
      model |-> None] : tc \in {None, Some(9)}}
    \cup {[completed_at |-> Some(Datetime(0, None)), total_cost |-> None,
           total_duration_ms |-> None, model |-> None]}

Init ==
    /\ foreign_keys \in BOOLEAN
    /\ calls = <<>>
    /\ active_connections = {}
    /\ sessions = <<>>
    /\ events = <<>>
    /\ snapshots = <<>>
    /\ cb = RagDebuggerCallback(None, None, TRUE)
    /\ clock = 1
    /\ last = Call("connect", "", "ok")

LogEvent(event) ==
    /\ Len(events) < MaxEvents
    /\ store_event(event)

Next ==
    \/ \E s \in StoreSessions : create_session(s)
    \/ \E id \in SessionIds, u \in StoreUpdates : update_session(id, u)
    \/ \E id \in SessionIds, body \in PatchBodies : routes_update_session(id, body)
    \/ \E id \in SessionIds : delete_session(id)
    \/ \E e \in StoreEvents : LogEvent(e)
    \/ \E k \in StoreSnapshots : create_snapshot(k)
    \/ \E k \in SnapshotIds : delete_snapshot(k)

Spec == Init /\ [][Next]_vars

-----------------------------------------------------------------------------
(* Properties of sessions and snapshots, checked under Spec *)

\* C1: in the state delete_session(id) leaves when it returns True, no
\* stored event has session_id id, and get_session_detail(id) is None.
C1_DeleteRemovesEvents ==
    (last.op = "delete_session" /\ last.ret = "True")
    => /\ \A i \in DOMAIN events : events[i].session_id # last.arg
       /\ get_session_detail(db, last.arg) = None

\* C11: update_session called with no allow-listed field (through the
\* store or through the PATCH request) changes nothing in the store, and
\* its result differs from the result the same caller gets for an absent
\* session id with an allow-listed field.
C11_NoFieldIsCallerError ==
    [][/\ \A id \in DOMAIN sessions, u \in StoreUpdates :
             (update_session(id, u) /\ DOMAIN u \cap valid_fields = {})
             => /\ UNCHANGED <<sessions, events, snapshots>>
                /\ \A v \in StoreUpdates :
                      DOMAIN v \cap valid_fields # {}
                      => last'.ret # UpdateResult(<<>>, id, v)
       /\ \A id \in SessionIds, body \in PatchBodies :
             (routes_update_session(id, body) /\ DOMAIN BodyUpdates(body) = {})
             => /\ UNCHANGED <<sessions, events, snapshots>>
                /\ last'.ret # "404"
      ]_vars

C13_DuplicateRejected ==
    [][\A s \in StoreSessions :
          (create_session(s) /\ s.id \in DOMAIN sessions)
          => /\ last'.ret = "IntegrityError"
             /\ sessions' = sessions
             /\ get_session(db', s.id) = get_session(db, s.id)
             /\ events' = events
             /\ snapshots' = snapshots
      ]_vars

\* create_session has just been refused for "s1", whose stored row (its
\* total_cost was updated) differs from the one offered, with an event and
\* a snapshot in the store
C13_Witness ==
    /\ last = Call("create_session", "s1", "IntegrityError")
    /\ get_session(db, "s1")[1].total_cost = Some(9)
    /\ EventsOfSession(db, "s1") # <<>>
    /\ DOMAIN snapshots # {}

\* the three tables
tables == <<sessions, events, snapshots>>

\* C14: for a session id that is not stored, get_session and
\* get_session_detail return None, and update_session and delete_session
\* return False and leave the store as it was; for a snapshot id that is
\* not stored, get_snapshot returns None, and delete_snapshot returns False
\* and leaves the store as it was.
C14_AbsentIds ==
    [][/\ \A id \in SessionIds \ DOMAIN sessions :
             /\ get_session(db, id) = None
             /\ get_session_detail(db, id) = None
             /\ \A u \in StoreUpdates :
                   update_session(id, u)
                   => (last'.ret = "False" /\ UNCHANGED tables)
             /\ delete_session(id)
                => (last'.ret = "False" /\ UNCHANGED tables)
       /\ \A k \in SnapshotIds \ DOMAIN snapshots :
             /\ get_snapshot(db, k) = None
             /\ delete_snapshot(k)
                => (last'.ret = "False" /\ UNCHANGED tables)
      ]_vars

\* delete_session has just been called for "s1", which is not stored
\* although an event and a snapshot still name it, and returned False
C14_Witness ==
    /\ last = Call("delete_session", "s1", "False")
    /\ get_session_detail(db, "s1") = None
    /\ EventsOfSession(db, "s1") # <<>>
    /\ \E k \in DOMAIN snapshots : get_snapshot(db, k)[1].session_id = "s1"
    /\ \E k \in SnapshotIds : get_snapshot(db, k) = None

\* C15: every stored session that has both timestamps has a completed_at
\* that is not before its created_at.
C15_CompletedAfterCreated ==
    \A id \in DOMAIN sessions :
        LET session == get_session(db, id)[1] IN
        session.completed_at # None
        => Instant(session.created_at) <= Instant(session.completed_at[1])

\* C33: a store_event for a session id that names no stored session is
\* rejected and inserts nothing; every stored event belongs to a stored
\* session, and a session just created has its three event slots empty.
C33_EventsHaveSessions ==
    [][/\ \A e \in StoreEvents :
             (LogEvent(e) /\ e.session_id \notin DOMAIN sessions)
             => (last'.ret # "ok" /\ events' = events)
       /\ \A i \in DOMAIN events' : events'[i].session_id \in DOMAIN sessions'
       /\ \A s \in StoreSessions :
             (create_session(s) /\ s.id \notin DOMAIN sessions)
             => \A t \in EventTypes : get_events(db', s.id)[t] = None
      ]_vars

\* the store filled and then cleared from the command line
NextClear ==
    \/ \E s \in StoreSessions : create_session(s)
    \/ \E e \in StoreEvents : LogEvent(e)
    \/ \E k \in StoreSnapshots : create_snapshot(k)
    \/ \E confirmed \in BOOLEAN : clear(confirmed)

SpecClear == Init /\ [][NextClear]_vars

\* C36: after the clear command has completed successfully, the store
\* holds no sessions, no snapshots and no events
C36_ClearEmpties ==
    (last.op = "clear" /\ last.ret = "ok")
    => (sessions = <<>> /\ snapshots = <<>> /\ events = <<>>)

\* C8: a step that is not delete_snapshot on a stored snapshot's id leaves
\* the snapshot stored with every field (session_id, query, chunks, answer,
\* cost, timestamp, tags, model) as it was; this covers store_event,
\* update_session and delete_session on its source session.
C8_SnapshotImmutable ==
    [][\A k \in DOMAIN snapshots :
          ~(last'.op = "delete_snapshot" /\ last'.arg = k)
          => /\ get_snapshot(db', k) # None
             /\ get_snapshot(db', k) = get_snapshot(db, k)
      ]_vars

\* delete_session has just deleted a session that a stored snapshot names
\* as its source
C8_Witness ==
    /\ last = Call("delete_session", "s1", "True")
    /\ \E k \in DOMAIN snapshots : get_snapshot(db, k)[1].session_id = "s1"

-----------------------------------------------------------------------------
(* SpecLog: events logged for one session and read back *)

\* timestamps of logged events: two naive ones, and two aware ones whose
\* wall-clock order is the reverse of their order in time
\* (Aware1 is 03:00+02:00, Aware2 is 02:00+00:00)
Naive1 == Datetime(1, None)
Naive2 == Datetime(2, None)
Aware1 == Datetime(3, Some(2))
Aware2 == Datetime(2, Some(0))

LogSessions ==
    {RagSession("s1", "q1", Datetime(1, None), None, tc, None, None) :
        tc \in {None, Some(7)}}

LogUpdates == {[total_cost |-> Some(9)]}

LogEvents ==
    {Wrap("generation", GenerationData("s1", Naive1, 1, 2, 150000)),
     Wrap("generation", GenerationData("s1", Naive2, 0, 2, 120000)),
     Wrap("generation", GenerationData("s1", Naive2, 0, 0, 100)),
     Wrap("generation", GenerationData("s1", Aware1, 1, 2, 150000)),
     Wrap("generation", GenerationData("s1", Aware2, 2, 1, 90000)),
     Wrap("retrieval", RetrievalData("s1", Naive1, 200)),
     Wrap("retrieval", RetrievalData("s1", Naive2, 400)),
     Wrap("prompt", PromptData("s1", Naive1)),
     Wrap("generation", GenerationData("s2", Naive2, 2, 1, 90000))}

LogEventBounded(event) ==
    /\ Len(events) < MaxLogged
    /\ store_event(event)

NextLog ==
    \/ \E s \in LogSessions : create_session(s)
    \/ \E u \in LogUpdates : update_session("s1", u)
    \/ \E e \in LogEvents : LogEventBounded(e)

SpecLog == Init /\ [][NextLog]_vars

-----------------------------------------------------------------------------
(* Properties of the reads, checked under SpecLog *)

\* the rows of one type stored for a session
RowsOf(session_id, event_type) ==
    {i \in DOMAIN events :
        events[i].session_id = session_id /\ events[i].event_type = event_type}

\* the event a row holds, as get_events builds it
EventOfRow(i) == ParseEvent(json_loads(events[i].data))

\* the time a row's timestamp column denotes
TimeOfRow(i) == fromisoformat(events[i].timestamp)

\* C4: for every session and each of the three types, get_events returns
\* None when no event of the type is stored, and otherwise (the timestamps
\* being ones Python can order) a stored event of the type that no other
\* stored event of the type is later than.
C4_LatestByTimestamp ==
    \A id \in DOMAIN sessions, t \in EventTypes :
        IF RowsOf(id, t) = {} THEN get_events(db, id)[t] = None
        ELSE (\A i, j \in RowsOf(id, t) : Comparable(TimeOfRow(i), TimeOfRow(j)))
             => \E i \in RowsOf(id, t) :
                   /\ \A j \in RowsOf(id, t) :
                         Instant(TimeOfRow(j)) <= Instant(TimeOfRow(i))
                   /\ get_events(db, id)[t] = Some(EventOfRow(i))

\* C5: when a generation event exists and its token counts do not sum to
\* zero, the breakdown splits its cost in proportion to the token counts
\* (also when exactly one count is zero); when they sum to zero the split
\* is 50/50.
C5_ProportionalSplit ==
    \A id \in DOMAIN sessions :
        LET gen == get_events(db, id)["generation"][1]
            b == get_cost_breakdown(db, id)
            total_tokens == gen.input_tokens + gen.output_tokens
        IN  get_events(db, id)["generation"] # None =>
                IF total_tokens # 0
                THEN /\ FracEq(b.input_cost,
                               Frac(gen.cost * gen.input_tokens, total_tokens))
                     /\ FracEq(b.output_cost,
                               Frac(gen.cost * gen.output_tokens, total_tokens))
                ELSE /\ FracEq(b.input_cost, Frac(gen.cost, 2))
                     /\ FracEq(b.output_cost, Frac(gen.cost, 2))

\* C6: for every store state and every session id, the breakdown of
\* get_cost_breakdown, which is also the one get_session_detail embeds,
\* has total_cost equal to embedding_cost + input_cost + output_cost.
C6_CostAdditivity ==
    \A id \in SessionIds :
        LET b == get_cost_breakdown(db, id) IN
        /\ FracEq(b.total_cost,
                  FracAdd(FracAdd(b.embedding_cost, b.input_cost), b.output_cost))
        /\ get_session_detail(db, id) # None =>
               get_session_detail(db, id)[1].cost_breakdown = b

\* a session with a retrieval event and a generation event, both with a
\* cost, whose generation cost is split in proportion
C6_Witness ==
    /\ get_session_detail(db, "s1") # None
    /\ get_events(db, "s1")["retrieval"] # None
    /\ get_events(db, "s1")["generation"] # None
    /\ get_events(db, "s1")["retrieval"][1].embedding_cost = 400
    /\ get_events(db, "s1")["generation"][1].input_tokens = 2
    /\ get_events(db, "s1")["generation"][1].output_tokens = 1
    /\ get_cost_breakdown(db, "s1").total_cost.num # 0

\* C7: a step that leaves the stored events as they are, whatever it writes
\* to the session's total_cost, leaves the cost breakdown of
\* get_session_detail as it is; and the breakdown is the one
\* get_cost_breakdown derives from the events.
C7_BreakdownFromEvents ==
    [][\A id \in SessionIds :
          /\ (get_session_detail(db, id) # None /\ get_session_detail(db', id) # None
                 /\ events' = events)
              => get_session_detail(db', id)[1].cost_breakdown
                   = get_session_detail(db, id)[1].cost_breakdown
          /\ get_session_detail(db', id) # None
              => get_session_detail(db', id)[1].cost_breakdown = get_cost_breakdown(db', id)
      ]_vars

\* update_session has just written a total_cost to a session whose
\* generation event costs something else
C7_Witness ==
    /\ last = Call("update_session", "s1", "True")
    /\ get_session(db, "s1")[1].total_cost = Some(9)
    /\ get_events(db, "s1")["generation"] # None
    /\ get_events(db, "s1")["generation"][1].cost = 150000
    /\ FracEq(get_session_detail(db, "s1")[1].cost_breakdown.total_cost, Frac(150000, 1))

\* the generation slot of a session detail carries the payload's response
\* text, model, token counts and cost
SameGeneration(detail, data) ==
    /\ detail # None
    /\ detail[1].generation # None
    /\ detail[1].generation[1].response = data.response
    /\ detail[1].generation[1].model = data.model
    /\ detail[1].generation[1].input_tokens = data.input_tokens
    /\ detail[1].generation[1].output_tokens = data.output_tokens
    /\ detail[1].generation[1].cost = data.cost

\* every generation row already stored for the event's session has a
\* timestamp text that sorts strictly before the event's
SortsLast(event) ==
    \A i \in RowsOf(event.session_id, "generation") :
        TextLess(events[i].timestamp, isoformat(event.timestamp))

C16_CostIsDerived ==
    \A id \in DOMAIN sessions :
        LET gen == get_session_detail(db, id)[1].generation IN
        gen # None =>
            gen[1].cost = calculate_generation_cost(
                              gen[1].input_tokens, gen[1].output_tokens, gen[1].model)[3]

\* C21: a stored session always has a detail; the slot of every phase the
\* session has no stored event of is None, and with no event at all the
\* cost breakdown is all zeros.
C21_PartialDetail ==
    \A id \in DOMAIN sessions :
        LET detail == get_session_detail(db, id) IN
        /\ detail # None
        /\ detail[1].session = get_session(db, id)[1]
        /\ RowsOf(id, "retrieval") = {} => detail[1].retrieval = None
        /\ RowsOf(id, "prompt") = {} => detail[1].prompt = None
        /\ RowsOf(id, "generation") = {} => detail[1].generation = None
        /\ EventsOfSession(db, id) = <<>>
           => /\ FracEq(detail[1].cost_breakdown.embedding_cost, Frac(0, 1))
              /\ FracEq(detail[1].cost_breakdown.input_cost, Frac(0, 1))
              /\ FracEq(detail[1].cost_breakdown.output_cost, Frac(0, 1))
              /\ FracEq(detail[1].cost_breakdown.total_cost, Frac(0, 1))

\* a session that has a retrieval event and nothing else, while another
\* session's generation event is in the store
C21_Witness ==
    /\ "s1" \in DOMAIN sessions
    /\ RowsOf("s1", "retrieval") # {}
    /\ RowsOf("s1", "prompt") = {}
    /\ RowsOf("s1", "generation") = {}
    /\ RowsOf("s2", "generation") # {}
    /\ get_session_detail(db, "s1")[1].retrieval # None
    /\ get_session_detail(db, "s1")[1].generation = None
    /\ get_session_detail(db, "s1")[1].cost_breakdown.total_cost.num = 200

-----------------------------------------------------------------------------
(* SpecSnapshot: snapshots taken of a session through POST /snapshots *)

SnapshotSessions ==
    {RagSession("s1", "q1", Datetime(1, None), None, None, None, None),
     RagSession("s1", "q1", Datetime(1, None), None, Some(0), None, None),
     RagSession("s1", "q2", Datetime(1, None), None, Some(7), None,
                Some("gpt-3.5-turbo"))}

\* a first retrieval of two chunks, a later retrieval of one chunk, and a
\* generation
SnapshotEvents ==
    {Wrap("retrieval", [RetrievalData("s1", Naive1, 200) EXCEPT
                            !.chunks = <<ChunkOf(StrDoc("c2")), ChunkOf(StrDoc("c1"))>>]),
     Wrap("retrieval", RetrievalData("s1", Naive2, 400)),
     Wrap("generation", GenerationData("s1", Naive1, 1, 2, 150000))}

\* the tags of the request body
SnapshotTags == {<<"v1", "v1">>, <<"v2", "v1">>}

CreateSnapshotBounded(session_id, tags) ==
    /\ Cardinality(DOMAIN snapshots) < MaxSnapshots
    /\ routes_create_snapshot(session_id, tags)

NextSnapshot ==
    \/ \E s \in SnapshotSessions : create_session(s)
    \/ \E e \in SnapshotEvents : LogEvent(e)
    \/ \E id \in SessionIds, tags \in SnapshotTags : CreateSnapshotBounded(id, tags)
    \/ /\ Cardinality(DOMAIN snapshots) < MaxSnapshots
       /\ \E id \in {"s1", "last"} : snapshot_save(id, <<"v2", "v1">>)

SpecSnapshot == Init /\ [][NextSnapshot]_vars

-----------------------------------------------------------------------------
(* Properties of POST /snapshots, checked under SpecSnapshot *)

\* C22: a request to snapshot a session id that is not in the store is
\* answered not found (404), and the snapshots are left as they were.
C22_SnapshotOfAbsentSession ==
    [][\A id \in SessionIds \ DOMAIN sessions, tags \in SnapshotTags :
          CreateSnapshotBounded(id, tags)
          => /\ last'.ret = "404"
             /\ snapshots' = snapshots
             /\ list_snapshots(db', 10) = list_snapshots(db, 10)
      ]_vars

\* the request for the absent session "s2" was refused while "s1" is
\* stored and has a snapshot
C22_Witness ==
    /\ last = Call("POST /snapshots", "s2", "404")
    /\ "s1" \in DOMAIN sessions
    /\ "s2" \notin DOMAIN sessions
    /\ \E k \in DOMAIN snapshots : get_snapshot(db, k)[1].session_id = "s1"

\* C23: the snapshot a request creates of a stored session reads back with
\* the session's query, the chunks of the session's current retrieval slot
\* in their order (none without a retrieval event), the response of the
\* current generation slot (the empty string without one), and the tags of
\* the request, in their order and with their duplicates.
C23_SnapshotContent ==
    [][\A id \in DOMAIN sessions, tags \in SnapshotTags :
          CreateSnapshotBounded(id, tags)
          => /\ last'.ret = "201"
             /\ \E k \in DOMAIN snapshots' \ DOMAIN snapshots :
                   LET snapshot == get_snapshot(db', k)[1]
                       detail == get_session_detail(db, id)[1]
                   IN  /\ DOMAIN snapshots' = DOMAIN snapshots \cup {k}
                       /\ snapshot.session_id = id
                       /\ snapshot.query = get_session(db, id)[1].query
                       /\ snapshot.chunks =
                             IF detail.retrieval # None
                             THEN detail.retrieval[1].chunks ELSE <<>>
                       /\ snapshot.answer =
                             IF detail.generation # None
                             THEN detail.generation[1].response ELSE ""
                       /\ snapshot.tags = tags
      ]_vars

\* a snapshot with a repeated tag, taken of a session that had a two-chunk
\* retrieval and no generation, next to one taken with the generation
C23_Witness ==
    /\ last = Call("POST /snapshots", "s1", "201")
    /\ \E k \in DOMAIN snapshots :
          /\ get_snapshot(db, k)[1].tags = <<"v1", "v1">>
          /\ get_snapshot(db, k)[1].chunks = <<ChunkOf(StrDoc("c2")), ChunkOf(StrDoc("c1"))>>
          /\ get_snapshot(db, k)[1].answer = ""
          /\ get_snapshot(db, k)[1].query = "q2"
    /\ \E k \in DOMAIN snapshots :
          /\ get_snapshot(db, k)[1].tags = <<"v2", "v1">>
          /\ get_snapshot(db, k)[1].answer = "a1"

\* C38: the snapshot that POST /snapshots or the snapshot save command
\* creates reads back with the cost of the session row's total_cost as it
\* is stored at that time (0 when it is unset), whatever the cost
\* breakdown computes from the events, and with the session row's model
C38_SnapshotCost ==
    [][(\/ last'.op = "POST /snapshots" /\ last'.ret = "201"
        \/ last'.op = "snapshot save" /\ last'.ret = "created")
       => \E k \in DOMAIN snapshots' \ DOMAIN snapshots :
             LET snapshot == get_snapshot(db', k)[1]
                 row == sessions[snapshot.session_id]
             IN  /\ snapshot.session_id \in DOMAIN sessions
                 /\ snapshot.cost = IF row.total_cost = None THEN 0
                                    ELSE row.total_cost[1]
                 /\ snapshot.model = row.model
      ]_vars

\* a snapshot of cost 7 and model gpt-3.5-turbo, taken of a session whose
\* events add up to another cost and whose generation names gpt-4
C38_Witness ==
    /\ last.op \in {"POST /snapshots", "snapshot save"}
    /\ last.ret \in {"201", "created"}
    /\ "s1" \in DOMAIN sessions
    /\ sessions["s1"].total_cost = Some(7)
    /\ sessions["s1"].model = Some("gpt-3.5-turbo")
    /\ get_session_detail(db, "s1")[1].generation # None
    /\ get_session_detail(db, "s1")[1].generation[1].model = "gpt-4"
    /\ get_cost_breakdown(db, "s1").total_cost # Frac(7, 1)
    /\ \E k \in DOMAIN snapshots :
          /\ get_snapshot(db, k)[1].cost = 7
          /\ get_snapshot(db, k)[1].model = Some("gpt-3.5-turbo")

-----------------------------------------------------------------------------
(* SpecList: sessions created at several times and listed in pages *)

ListIds == {"s1", "s2", "s3"}

ListSessions ==
    {RagSession(id, "q1", created_at, None, None, None, None) :
        id \in ListIds, created_at \in {Naive1, Naive2, Aware1, Aware2}}

NextList ==
    \/ \E s \in ListSessions : create_session(s)
    \/ \E id \in ListIds : delete_session(id)

SpecList == Init /\ [][NextList]_vars

-----------------------------------------------------------------------------
(* Properties of list_sessions, checked under SpecList *)

\* C24: list_sessions(limit, offset) returns at most limit sessions, as many
\* as the store has from position offset on, in non-increasing created_at
\* order (for created_at values Python can order); and when all created_at
\* values are distinct, a page followed by the next page is the page of
\* twice the limit: no session is repeated or skipped.
C24_ListPage ==
    \A limit \in 0..MaxLimit, offset \in 0..MaxLimit :
        \A page \in list_sessions(db, limit, offset) :
            /\ Len(page) <= limit
            /\ Len(page) = Cardinality(PageRows(Cardinality(DOMAIN sessions),
                                                limit, offset))
            /\ \A i, j \in DOMAIN page :
                  (i < j /\ Comparable(page[i].created_at, page[j].created_at))
                  => Instant(page[j].created_at) <= Instant(page[i].created_at)
            /\ (\A a, b \in DOMAIN sessions :
                    a # b => sessions[a].created_at # sessions[b].created_at)
               => list_sessions(db, 2 * limit, offset)
                     = {page \o next : next \in list_sessions(db, limit, offset + limit)}

-----------------------------------------------------------------------------
(* SpecFlush: one callback handler driven through a RAG request *)

\* how the caller constructs the handler: with its own session id or none,
\* with a query or none, saving automatically or not
Handlers ==
    {RagDebuggerCallback(session_id, query, auto_save) :
        session_id \in {None, Some("s1")},
        query \in {None, Some("q1")},
        auto_save \in BOOLEAN}

FlushSessions == {RagSession("s1", "q1", Datetime(1, None), None, None, None, None)}

Tokenizers == {"ok", "fails"}

Responses ==
    {[text |-> "a1", token_usage |-> None, model_name |-> None],
     [text |-> "a1",
      token_usage |-> Some([prompt_tokens |-> 1, completion_tokens |-> 2]),
      model_name |-> Some("gpt-4")]}

InitFlush ==
    /\ foreign_keys \in BOOLEAN
    /\ calls = <<>>
    /\ active_connections = {}
    /\ sessions = <<>>
    /\ events = <<>>
    /\ snapshots = <<>>
    /\ cb \in Handlers
    /\ clock = 1
    /\ last = Call("connect", "", "ok")

LlmStart(model, prompts, tokenizer) ==
    /\ Len(cb.prompts) + Len(prompts) <= MaxPrompts
    /\ on_llm_start(model, prompts, tokenizer)

TickBounded ==
    /\ clock < MaxClock
    /\ Tick

NextFlush ==
    \/ \E s \in FlushSessions : create_session(s)
    \/ on_retriever_start("q1")
    \/ \E t \in Tokenizers : on_retriever_end(<<StrDoc("c1")>>, 3, t)
    \/ \E prompts \in {<<>>, <<"p1">>} : LlmStart("gpt-4", prompts, "ok")
    \/ \E r \in Responses : on_llm_end(r, 5, "ok")
    \/ save
    \/ TickBounded

SpecFlush == InitFlush /\ [][NextFlush]_vars

\* the step flushed a capture session: save() ran, by hand or from
\* on_llm_end, with a capture session to save
Flushed ==
    \/ last.op = "save" /\ last.ret # "no capture"
    \/ last.op = "on_llm_end" /\ last.ret # "not saved"

\* C2: after a capture session that has captured a retrieval, a prompt and
\* a generation event is flushed for a session that exists in the store,
\* get_session_detail of the session is not None and its retrieval, prompt
\* and generation slots hold the captured events.
C2_FlushRoundTrip ==
    (/\ Flushed
     /\ cb.capture # None
     /\ cb.capture[1].retrieval_event # None
     /\ cb.capture[1].prompt_event # None
     /\ cb.capture[1].generation_event # None
     /\ cb.capture[1].session_id \in DOMAIN sessions)
    => LET detail == get_session_detail(db, cb.capture[1].session_id) IN
       /\ detail # None
       /\ detail[1].retrieval = cb.capture[1].retrieval_event
       /\ detail[1].prompt = cb.capture[1].prompt_event
       /\ detail[1].generation = cb.capture[1].generation_event

\* C3: when the handler was constructed with the caller's session id "s1"
\* and no session row "s1" exists, then after the flush get_session("s1")
\* returns a session carrying the capture session's query.
C3_FlushUpsertsSession ==
    [][(Flushed' /\ cb.session_id = Some("s1") /\ "s1" \notin DOMAIN sessions)
       => /\ get_session(db', "s1") # None
          /\ get_session(db', "s1")[1].query = cb'.capture[1].query
      ]_vars

-----------------------------------------------------------------------------
(* SpecCapture: one CaptureSession and the capture calls made on it *)

Documents == {<<>>, <<StrDoc("c1")>>}

RetrievalDurations == {3, 150}

GenerationDurations == {5, 1500}

\* the model and the token counts of a generation
Generations ==
    {[model |-> "gpt-4", input_tokens |-> 1, output_tokens |-> 2],
     [model |-> "gpt-3.5-turbo", input_tokens |-> 2, output_tokens |-> 1]}

\* capture = CaptureSession("s1", "q1"); the handler is the one that holds
\* such a capture
InitCapture ==
    /\ foreign_keys \in BOOLEAN
    /\ calls = <<>>
    /\ active_connections = {}
    /\ sessions = <<>>
    /\ events = <<>>
    /\ snapshots = <<>>
    /\ clock = 1
    /\ cb = [RagDebuggerCallback(Some("s1"), Some("q1"), FALSE)
               EXCEPT !.capture = Some(CaptureSession("s1", "q1"))]
    /\ last = Call("CaptureSession", "s1", CaptureSession("s1", "q1"))

\* capture.capture_retrieval(documents, duration_ms); ret is the event the
\* call returns
CaptureRetrieval(documents, duration_ms, tokenizer) ==
    LET cap == capture_retrieval(cb.capture[1], documents, duration_ms,
                                 "text-embedding-ada-002", tokenizer) IN
    /\ cb' = [cb EXCEPT !.capture = Some(cap)]
    /\ last' = Call("capture_retrieval", cap.session_id,
                    IF RetrievalError(documents) # ""
                    THEN [exception |-> RetrievalError(documents)]
                    ELSE cap.retrieval_event[1])
    /\ UNCHANGED <<calls, active_connections, foreign_keys, sessions, events, snapshots, clock>>

\* capture.capture_prompt(prompt)
CapturePrompt(prompt, tokenizer) ==
    LET cap == capture_prompt(cb.capture[1], prompt, "gpt-3.5-turbo", tokenizer) IN
    /\ cb' = [cb EXCEPT !.capture = Some(cap)]
    /\ last' = Call("capture_prompt", cap.session_id, cap.prompt_event[1])
    /\ UNCHANGED <<calls, active_connections, foreign_keys, sessions, events, snapshots, clock>>

\* capture.capture_generation(response, model, input_tokens, output_tokens,
\* duration_ms)
CaptureGeneration(generation, duration_ms) ==
    LET cap == capture_generation(cb.capture[1], "a1", generation.model,
                                  generation.input_tokens,
                                  generation.output_tokens, duration_ms) IN
    /\ cb' = [cb EXCEPT !.capture = Some(cap)]
    /\ last' = Call("capture_generation", cap.session_id, cap.generation_event[1])
    /\ UNCHANGED <<calls, active_connections, foreign_keys, sessions, events, snapshots, clock>>

NextCapture ==
    \/ \E documents \in Documents, d \in RetrievalDurations, t \in Tokenizers :
          CaptureRetrieval(documents, d, t)
    \/ \E t \in Tokenizers : CapturePrompt("p1", t)
    \/ \E g \in Generations, d \in GenerationDurations : CaptureGeneration(g, d)
    \/ TickBounded

SpecCapture == InitCapture /\ [][NextCapture]_vars

-----------------------------------------------------------------------------
(* Properties of the capture aggregator, checked under SpecCapture *)

\* C17: a capture call that returns leaves in its slot exactly the event it
\* returns, built from the arguments of this call at the time of this call,
\* and leaves the two other slots alone; no other step changes a slot.
C17_LastWriteWins ==
    [][LET old == cb.capture[1]
           new == cb'.capture[1]
       IN
       /\ \A documents \in Documents, d \in RetrievalDurations, t \in Tokenizers :
             (CaptureRetrieval(documents, d, t) /\ RetrievalError(documents) = "")
             => /\ new.retrieval_event = Some(last'.ret)
                /\ last'.ret.duration_ms = d
                /\ last'.ret.timestamp = utcnow
                /\ last'.ret.chunks = [i \in DOMAIN documents |-> ChunkOf(documents[i])]
                /\ last'.ret.embedding_tokens = count_tokens("q1", "gpt-3.5-turbo", t)
                /\ new.prompt_event = old.prompt_event
                /\ new.generation_event = old.generation_event
       /\ \A t \in Tokenizers :
             CapturePrompt("p1", t)
             => /\ new.prompt_event = Some(last'.ret)
                /\ last'.ret.prompt = "p1"
                /\ last'.ret.timestamp = utcnow
                /\ last'.ret.token_count = count_tokens("p1", "gpt-3.5-turbo", t)
                /\ new.retrieval_event = old.retrieval_event
                /\ new.generation_event = old.generation_event
       /\ \A g \in Generations, d \in GenerationDurations :
             CaptureGeneration(g, d)
             => /\ new.generation_event = Some(last'.ret)
                /\ last'.ret.duration_ms = d
                /\ last'.ret.timestamp = utcnow
                /\ last'.ret.model = g.model
                /\ last'.ret.input_tokens = g.input_tokens
                /\ last'.ret.output_tokens = g.output_tokens
                /\ new.retrieval_event = old.retrieval_event
                /\ new.prompt_event = old.prompt_event
       /\ new.retrieval_event # old.retrieval_event => last'.op = "capture_retrieval"
       /\ new.prompt_event # old.prompt_event => last'.op = "capture_prompt"
       /\ new.generation_event # old.generation_event => last'.op = "capture_generation"
      ]_vars

\* every slot is filled, the retrieval slot by the latest call: its event
\* is the one just returned, stamped later than the prompt and the
\* generation
C17_Witness ==
    /\ last.op = "capture_retrieval"
    /\ cb.capture[1].retrieval_event = Some(last.ret)
    /\ last.ret.duration_ms = 150
    /\ last.ret.timestamp = Datetime(2, None)
    /\ cb.capture[1].prompt_event # None
    /\ cb.capture[1].prompt_event[1].timestamp = Datetime(1, None)
    /\ cb.capture[1].generation_event # None
    /\ cb.capture[1].generation_event[1].timestamp = Datetime(1, None)

\* C37: a capture_retrieval, capture_prompt or capture_generation step
\* leaves the aggregator's session_id, query and created_at and the two
\* slots of the other phases as they were, and the event in the slot it
\* writes carries the aggregator's session_id
C37_CaptureFrame ==
    [][last'.op \in {"capture_retrieval", "capture_prompt", "capture_generation"}
       => LET old == cb.capture[1]
              new == cb'.capture[1]
              written == CASE last'.op = "capture_retrieval" -> "retrieval_event"
                           [] last'.op = "capture_prompt" -> "prompt_event"
                           [] last'.op = "capture_generation" -> "generation_event"
          IN  /\ new.session_id = old.session_id
              /\ new.query = old.query
              /\ new.created_at = old.created_at
              /\ \A slot \in {"retrieval_event", "prompt_event", "generation_event"}
                        \ {written} :
                    new[slot] = old[slot]
              /\ new[written] # None
                    => new[written][1].session_id = old.session_id
      ]_vars

\* a generation captured at time 2 by an aggregator made at time 1 that
\* already held a retrieval and a prompt event
C37_Witness ==
    /\ last.op = "capture_generation"
    /\ clock = 2
    /\ cb.capture[1].created_at = Datetime(1, None)
    /\ cb.capture[1].session_id = "s1"
    /\ cb.capture[1].query = "q1"
    /\ cb.capture[1].retrieval_event # None
    /\ cb.capture[1].prompt_event # None
    /\ cb.capture[1].generation_event # None
    /\ cb.capture[1].generation_event[1].session_id = "s1"
    /\ cb.capture[1].generation_event[1].timestamp = Datetime(2, None)

\* C18: get_total_duration is None while the retrieval event or the
\* generation event is missing, whatever the prompt slot holds, and is the
\* sum of the two duration_ms once both are present (150 + 1500 = 1650).
C18_TotalDuration ==
    LET cap == cb.capture[1]
        retrieval == cap.retrieval_event
        generation == cap.generation_event
    IN  /\ (retrieval = None \/ generation = None) => get_total_duration(cap) = None
        /\ (retrieval # None /\ generation # None)
           => /\ get_total_duration(cap)
                    = Some(retrieval[1].duration_ms + generation[1].duration_ms)
              /\ (retrieval[1].duration_ms = 150 /\ generation[1].duration_ms = 1500)
                 => get_total_duration(cap) = Some(1650)

\* retrieval and prompt are captured, the generation is not: the duration
\* is unknown
C18_Witness ==
    /\ last.op = "capture_prompt"
    /\ cb.capture[1].retrieval_event # None
    /\ cb.capture[1].retrieval_event[1].duration_ms = 150
    /\ cb.capture[1].prompt_event # None
    /\ cb.capture[1].generation_event = None
    /\ get_total_duration(cb.capture[1]) = None

\* C19: get_total_cost is the embedding_cost of the retrieval event, if
\* there is one, plus the cost of the generation event, if there is one, and
\* 0 with neither; capturing a prompt does not change it.
C19_TotalCost ==
    [][LET cap == cb'.capture[1]
           embedding == IF cap.retrieval_event # None
                        THEN cap.retrieval_event[1].embedding_cost ELSE 0
           generation == IF cap.generation_event # None
                         THEN cap.generation_event[1].cost ELSE 0
       IN  /\ get_total_cost(cap) = embedding + generation
           /\ (cap.retrieval_event = None /\ cap.generation_event = None)
              => get_total_cost(cap) = 0
           /\ cap.prompt_event # cb.capture[1].prompt_event
              => get_total_cost(cap) = get_total_cost(cb.capture[1])
      ]_vars

\* all three events are captured, the prompt last, with tokens of its own;
\* the total is the embedding cost of 2 tokens plus the cost of 1 + 2
\* tokens of gpt-4
C19_Witness ==
    /\ last.op = "capture_prompt"
    /\ last.ret.token_count > 0
    /\ cb.capture[1].retrieval_event # None
    /\ cb.capture[1].retrieval_event[1].embedding_cost = 200
    /\ cb.capture[1].generation_event # None
    /\ cb.capture[1].generation_event[1].cost = 150000
    /\ get_total_cost(cb.capture[1]) = 150200

PhaseOrder == <<"retrieval", "prompt", "generation">>

\* C20: to_stored_events returns one StoredEvent for each phase event that
\* is present, in the order retrieval, prompt, generation, each with the
\* type of its phase, the session id of the aggregator, and the timestamp
\* and the fields of the event it wraps.
C20_StoredEventsInPhaseOrder ==
    LET cap == cb.capture[1]
        out == to_stored_events(cap)
        Present(t) == PhaseEvent(cap, t) # None
        present == SelectSeq(PhaseOrder, Present)
    IN  /\ Len(out) = Len(present)
        /\ \A i \in DOMAIN out :
              /\ out[i].event_type = present[i]
              /\ out[i].session_id = cap.session_id
              /\ out[i].timestamp = PhaseEvent(cap, present[i])[1].timestamp
              /\ out[i].data = model_dump(PhaseEvent(cap, present[i])[1])
        /\ \A i, j \in DOMAIN out : i # j => out[i].id # out[j].id

\* the generation was captured first and the retrieval last: the list
\* still starts with the retrieval event
C20_Witness ==
    /\ last.op = "capture_retrieval"
    /\ cb.capture[1].generation_event # None
    /\ cb.capture[1].generation_event[1].timestamp = Datetime(1, None)
    /\ cb.capture[1].prompt_event # None
    /\ cb.capture[1].retrieval_event # None
    /\ cb.capture[1].retrieval_event[1].timestamp = Datetime(2, None)
    /\ Len(to_stored_events(cb.capture[1])) = 3
    /\ to_stored_events(cb.capture[1])[1].event_type = "retrieval"
    /\ to_stored_events(cb.capture[1])[3].event_type = "generation"

-----------------------------------------------------------------------------
(* SpecDocuments: one CaptureSession handed documents of every shape *)

\* lists of documents: none, one string, one of each shape (metadata with a
\* score, absent metadata), and documents with malformed metadata: a
\* metadata that is None, a score that is a text, a page that is a text, a
\* document id that is an int
DocumentLists ==
    {<<>>,
     <<StrDoc("c1")>>,
     <<ObjectDoc("c2", Some(PyDict([score |-> PyFloat(95), source |-> PyStr("f1"),
                                    page |-> PyInt(1)]))),
       DictDoc("c3", None),
       StrDoc("c1")>>,
     <<StrDoc("c1"), ObjectDoc("c2", Some(PyNone))>>,
     <<DictDoc("c3", Some(PyDict([score |-> PyStr("high")])))>>,
     <<ObjectDoc("c2", Some(PyDict([page |-> PyStr("three")])))>>,
     <<ObjectDoc("c2", Some(PyDict([doc_id |-> PyInt(7)])))>>}

NextDocuments ==
    \/ \E documents \in DocumentLists, d \in RetrievalDurations, t \in Tokenizers :
          CaptureRetrieval(documents, d, t)
    \/ TickBounded

SpecDocuments == InitCapture /\ [][NextDocuments]_vars

-----------------------------------------------------------------------------
(* Properties of capture_retrieval, checked under SpecDocuments *)

\* the documents whose metadata is absent or a mapping with a source, a
\* page and a document id of the types ChunkMetadata declares
WellFormed(documents) == RetrievalError(documents) = ""

\* C25: whatever the metadata of the documents (absent, not a mapping, a
\* score that is not a number, a page or a document id of the wrong type),
\* capture_retrieval raises nothing: it returns an event with a chunk for
\* every document, with score 0.0 where the metadata gives no numeric
\* score, and stores that event.
C25_MetadataTolerance ==
    [][\A documents \in DocumentLists, d \in RetrievalDurations, t \in Tokenizers :
          CaptureRetrieval(documents, d, t)
          => /\ "exception" \notin DOMAIN last'.ret
             /\ cb'.capture[1].retrieval_event = Some(last'.ret)
             /\ Len(last'.ret.chunks) = Len(documents)
             /\ \A i \in DOMAIN documents :
                   LET metadata == MetadataOf(documents[i]) IN
                   (\/ metadata.py # "dict"
                    \/ /\ "similarity" \notin DOMAIN metadata.v
                       /\ \/ "score" \notin DOMAIN metadata.v
                          \/ metadata.v["score"].py \notin {"int", "float"})
                   => last'.ret.chunks[i].metadata.score = 0
      ]_vars

-----------------------------------------------------------------------------
(* SpecCost: the cost engine asked for prices and generation costs *)

\* the keys of the price table, names that extend or shorten a key, and an
\* unrelated name
ModelNames == DOMAIN PRICING \cup {"gpt-4-0613", "gpt", "made-up-model"}

TokenCounts == 0..MaxTokens \cup {200, 500}

InitCost ==
    /\ foreign_keys \in BOOLEAN
    /\ calls = <<>>
    /\ active_connections = {}
    /\ sessions = <<>>
    /\ events = <<>>
    /\ snapshots = <<>>
    /\ cb = RagDebuggerCallback(None, None, TRUE)
    /\ clock = 1
    /\ last = Call("get_calculator", [model |-> ""], "ok")

\* get_calculator().get_pricing_info(model)
GetPricingInfo(model) ==
    /\ last' = Call("get_pricing_info", [model |-> model], get_pricing_info(model))
    /\ UNCHANGED <<calls, active_connections, foreign_keys, sessions, events, snapshots, cb, clock>>

\* calculate_generation_cost(input_tokens, output_tokens, model)
CalculateGenerationCost(input_tokens, output_tokens, model) ==
    /\ last' = Call("calculate_generation_cost",
                    [model |-> model, input_tokens |-> input_tokens,
                     output_tokens |-> output_tokens],
                    calculate_generation_cost(input_tokens, output_tokens, model))
    /\ UNCHANGED <<calls, active_connections, foreign_keys, sessions, events, snapshots, cb, clock>>

\* the texts counted, the models named, and what tiktoken does: "ok",
\* "fails" (loading the encoding raises) or "encode fails" (encode raises)
CountedTexts == {"", "q1", "p1", "a1"}
CountedModels == {"gpt-4", "made-up-model"}
TokenizerOutcomes == {"ok", "fails", "encode fails"}

\* get_calculator().count_tokens(text, model) on a calculator whose cache
\* is tokenizer_cache; loading cannot fail for a model that is cached
CountTokens(tokenizer_cache, text, model, tokenizer) ==
    /\ tokenizer = "fails" => model \notin tokenizer_cache
    /\ last' = Call("count_tokens",
                    [model |-> model, text |-> text, tokenizer |-> tokenizer,
                     tokenizer_cache |-> tokenizer_cache],
                    [returns |-> count_tokens(text, model, tokenizer),
                     tokenizer_cache |->
                         TokenizerCacheAfter(tokenizer_cache, text, model, tokenizer)])
    /\ UNCHANGED <<calls, active_connections, foreign_keys, sessions, events, snapshots, cb, clock>>

NextCost ==
    \/ \E model \in ModelNames : GetPricingInfo(model)
    \/ \E tokenizer_cache \in SUBSET CountedModels, text \in CountedTexts,
          model \in CountedModels, tokenizer \in TokenizerOutcomes :
          CountTokens(tokenizer_cache, text, model, tokenizer)
    \/ \E input_tokens \in TokenCounts, output_tokens \in TokenCounts,
          model \in ModelNames :
          CalculateGenerationCost(input_tokens, output_tokens, model)

SpecCost == InitCost /\ [][NextCost]_vars

-----------------------------------------------------------------------------
(* Properties of the cost engine, checked under SpecCost; prices are in    *)
(* nano-dollars per token: 0.0015 and 0.002 USD per 1K tokens are 1500 and *)
(* 2000, and 0.027 USD is 27000000                                         *)

C28_GenerationCost ==
    last.op = "calculate_generation_cost"
    => LET model == last.arg.model
           known == model \in DOMAIN PRICING
           inRate == IF known THEN PRICING[model].input ELSE 1500
           outRate == IF ~known THEN 2000
                      ELSE IF "output" \in DOMAIN PRICING[model]
                           THEN PRICING[model].output ELSE PRICING[model].input
       IN  /\ last.ret[1] = last.arg.input_tokens * inRate
           /\ last.ret[2] = last.arg.output_tokens * outRate
           /\ last.ret[3] = last.ret[1] + last.ret[2]
           /\ (model = "gpt-4" /\ last.arg.input_tokens = 500
                   /\ last.arg.output_tokens = 200)
              => last.ret = <<15000000, 12000000, 27000000>>

\* an embedding model misused for a generation: the output tokens are
\* charged at its input rate
C28_Witness ==
    /\ last.op = "calculate_generation_cost"
    /\ last.arg = [model |-> "text-embedding-ada-002", input_tokens |-> 500,
                   output_tokens |-> 200]
    /\ last.ret = <<50000, 20000, 70000>>

\* C29: calculate_generation_cost(0, 0, model) is (0, 0, 0) for every
\* model name: a key of the table, a key with an input rate only, or an
\* unknown name.
C29_ZeroTokens ==
    (/\ last.op = "calculate_generation_cost"
     /\ last.arg.input_tokens = 0
     /\ last.arg.output_tokens = 0)
    => last.ret = <<0, 0, 0>>

C29_Witness ==
    /\ last.op = "calculate_generation_cost"
    /\ last.arg = [model |-> "made-up-model", input_tokens |-> 0, output_tokens |-> 0]
    /\ last.ret = <<0, 0, 0>>

\* C30: for token counts that are not both zero, the total for gpt-4 is
\* greater than the total for gpt-3.5-turbo with the same counts.
C30_Gpt4CostsMore ==
    (/\ last.op = "calculate_generation_cost"
     /\ last.arg.model = "gpt-4"
     /\ last.arg.input_tokens + last.arg.output_tokens > 0)
    => last.ret[3] > calculate_generation_cost(last.arg.input_tokens,
                                               last.arg.output_tokens,
                                               "gpt-3.5-turbo")[3]

\* one output token and no input token: 0.00006 against 0.000002
C30_Witness ==
    /\ last.op = "calculate_generation_cost"
    /\ last.arg = [model |-> "gpt-4", input_tokens |-> 0, output_tokens |-> 1]
    /\ last.ret[3] = 60000
    /\ calculate_generation_cost(0, 1, "gpt-3.5-turbo")[3] = 2000

\* C31: count_tokens returns a count for every text, model and tokenizer
\* outcome: 0 for the empty text, leaving the tokenizer cache as it was;
\* the length of the encoding when the tokenizer works; and the number of
\* characters divided by 4, rounded down, when loading the tokenizer or
\* encoding fails.
C31_CountTokens ==
    last.op = "count_tokens"
    => /\ last.ret.returns \in Nat
       /\ last.arg.text = ""
          => /\ last.ret.returns = 0
             /\ last.ret.tokenizer_cache = last.arg.tokenizer_cache
       /\ (last.arg.text # "" /\ last.arg.tokenizer = "ok")
          => last.ret.returns = EncodeLen(last.arg.text)
       /\ (last.arg.text # "" /\ last.arg.tokenizer # "ok")
          => /\ 4 * last.ret.returns <= CharLen(last.arg.text)
             /\ CharLen(last.arg.text) < 4 * (last.ret.returns + 1)

\* the encoding of a model that is not cached cannot be loaded: a text of
\* 22 characters counts as 5 tokens, and nothing is cached
C31_Witness ==
    /\ last.op = "count_tokens"
    /\ last.arg = [model |-> "made-up-model", text |-> "p1", tokenizer |-> "fails",
                   tokenizer_cache |-> {"gpt-4"}]
    /\ last.ret = [returns |-> 5, tokenizer_cache |-> {"gpt-4"}]

-----------------------------------------------------------------------------
(* Overlapping update_session calls.  A call is three steps: the query   *)
(* is built from the arguments, cursor.execute runs the UPDATE, and      *)
(* conn.commit ends it.  SQLite runs one UPDATE statement atomically    *)
(* and lets one connection write at a time: a connection that has       *)
(* executed an UPDATE holds the write lock until its commit, and an     *)
(* UPDATE on another connection waits for it (sqlite3.connect keeps the *)
(* default busy timeout).  Calls on one connection share a transaction. *)

CallIds == {"a", "b"}

InitRace ==
    /\ foreign_keys \in BOOLEAN
    /\ calls = <<>>
    /\ active_connections = {}
    /\ \E total_cost \in {None, Some(7)} :
          sessions = ("s1" :> SessionRow(RagSession("s1", "q1", Datetime(1, None),
                                                    None, total_cost, None, None)))
    /\ events = <<>>
    /\ snapshots = <<>>
    /\ cb = RagDebuggerCallback(None, None, TRUE)
    /\ clock = 1
    /\ last = Call("connect", "", "ok")

\* update_session up to the query: no allow-listed field returns False
\* (overlaps notes the calls that were in flight when this one began)
UpdateBegin(c, conn, session_id, updates) ==
    /\ c \notin DOMAIN calls
    /\ calls' = calls @@
          (c :> [op |-> "update_session", conn |-> conn,
                 session_id |-> session_id, updates |-> updates,
                 pc |-> IF DOMAIN updates \cap valid_fields = {}
                        THEN "done" ELSE "execute",
                 overlaps |-> {d \in DOMAIN calls : calls[d].pc # "done"},
                 ret |-> "False"])
    /\ last' = Call("update_session", [call |-> c, step |-> "query"], "")
    /\ UNCHANGED <<active_connections, foreign_keys, sessions, events, snapshots, cb, clock>>

\* cursor.execute(query, values): it waits while another connection has
\* executed an UPDATE and not committed
UpdateExecute(c) ==
    /\ c \in DOMAIN calls
    /\ calls[c].pc = "execute"
    /\ \A d \in DOMAIN calls : calls[d].pc = "commit" => calls[d].conn = calls[c].conn
    /\ sessions' = UpdateRows(sessions, calls[c].session_id, calls[c].updates)
    /\ calls' = [calls EXCEPT ![c].pc = "commit",
                              ![c].ret = UpdateResult(sessions, calls[c].session_id,
                                                      calls[c].updates)]
    /\ last' = Call("update_session", [call |-> c, step |-> "execute"], "")
    /\ UNCHANGED <<active_connections, foreign_keys, events, snapshots, cb, clock>>

\* self.conn.commit() and return cursor.rowcount > 0
UpdateCommit(c) ==
    /\ c \in DOMAIN calls
    /\ calls[c].pc = "commit"
    /\ calls' = [calls EXCEPT ![c].pc = "done"]
    /\ last' = Call("update_session", [call |-> c, step |-> "commit"], calls[c].ret)
    /\ UNCHANGED <<active_connections, foreign_keys, sessions, events, snapshots, cb, clock>>

NextRace ==
    \/ \E c \in CallIds, conn \in {1, 2},
          u \in {[total_cost |-> Some(9)],
                 [total_cost |-> Some(4)],
                 [model |-> Some("gpt-4")],
                 [completed_at |-> Some(Datetime(2, None)),
                  total_duration_ms |-> Some(8)],
                 [metadata |-> Some("completed")]} :
          UpdateBegin(c, conn, "s1", u)
    \/ \E c \in CallIds : UpdateExecute(c)
    \/ \E c \in CallIds : UpdateCommit(c)

SpecRace == InitRace /\ [][NextRace]_vars

\* both calls have returned
BothDone == DOMAIN calls = CallIds /\ \A c \in CallIds : calls[c].pc = "done"

\* C34: once two overlapping update_session calls on one session have both
\* returned, every allow-listed field named by only one of them holds that
\* call's value, and a field named by both holds the value of one of them
C34_NoLostUpdate ==
    BothDone =>
        \A c \in CallIds, f \in valid_fields :
            f \in DOMAIN calls[c].updates =>
                \E d \in CallIds :
                    /\ f \in DOMAIN calls[d].updates
                    /\ sessions["s1"][f] = UpdatedRow(sessions["s1"], calls[d].updates)[f]

\* call b began while call a held the write lock on another connection,
\* the two naming different fields
C34_Witness ==
    /\ BothDone
    /\ calls["b"].overlaps = {"a"}
    /\ calls["a"].conn # calls["b"].conn
    /\ calls["a"].updates = [total_cost |-> Some(9)]
    /\ calls["b"].updates = [model |-> Some("gpt-4")]
    /\ last.arg = [call |-> "b", step |-> "commit"]
    /\ sessions["s1"].total_cost = Some(9)
    /\ sessions["s1"].model = Some("gpt-4")

-----------------------------------------------------------------------------
(* save() step by step, with a reader on another connection.  save()     *)
(* commits the UPDATE of update_session first and then commits one       *)
(* INSERT per store_event; an exception ends the loop.  A reader sees    *)
(* what has been committed.                                              *)

\* the handler's thread is not inside save()
Idle == \A c \in DOMAIN calls : calls[c].pc = "done"

InitSaveSteps ==
    /\ foreign_keys \in BOOLEAN
    /\ calls = <<>>
    /\ active_connections = {}
    /\ sessions = ("s1" :> SessionRow(RagSession("s1", "q1", Datetime(1, None),
                                                 None, None, None, None)))
    /\ events = <<>>
    /\ snapshots = <<>>
    /\ cb \in {RagDebuggerCallback(Some("s1"), query, FALSE) :
                  query \in {None, Some("q1")}}
    /\ clock = 1
    /\ last = Call("connect", "", "ok")

\* save() up to the loop: nothing without a capture session, else
\* update_session (committed) and the list of to_stored_events
SaveBegin(c) ==
    /\ Idle
    /\ c \notin DOMAIN calls
    /\ sessions' = SavedSessions(cb, sessions)
    /\ calls' = calls @@
          (c :> IF cb.capture = None
                THEN [op |-> "save", session_id |-> "", pending |-> <<>>,
                      pc |-> "done", ret |-> "no capture"]
                ELSE [op |-> "save", session_id |-> cb.capture[1].session_id,
                      pending |-> to_stored_events(cb.capture[1]),
                      pc |-> "store", ret |-> ""])
    /\ last' = Call("save", [call |-> c, step |-> "update_session"], "")
    /\ UNCHANGED <<active_connections, foreign_keys, events, snapshots, cb, clock>>

\* one turn of the loop of save(): store_event of the next event, or the
\* end of the loop; an exception is logged and ends save()
SaveStoreEvent(c) ==
    /\ c \in DOMAIN calls
    /\ calls[c].pc = "store"
    /\ IF calls[c].pending = <<>>
       THEN /\ events' = events
            /\ calls' = [calls EXCEPT ![c].pc = "done", ![c].ret = "ok"]
       ELSE LET event == Head(calls[c].pending)
                result == InsertResult(events, sessions, event)
            IN  /\ events' = InsertEvent(events, sessions, event)
                /\ calls' = IF result = "ok"
                            THEN [calls EXCEPT ![c].pending = Tail(@)]
                            ELSE [calls EXCEPT ![c].pc = "done", ![c].ret = result]
    /\ last' = Call("save", [call |-> c, step |-> "store_event"], calls'[c].ret)
    /\ UNCHANGED <<active_connections, foreign_keys, sessions, snapshots, cb, clock>>

\* get_session_detail on another connection (during: the save() calls
\* that are inside their loop)
ReadDetail(session_id) ==
    /\ last' = Call("get_session_detail",
                    [session_id |-> session_id,
                     during |-> {c \in DOMAIN calls : calls[c].pc = "store"}],
                    get_session_detail(db, session_id))
    /\ UNCHANGED <<calls, active_connections, foreign_keys, sessions, events, snapshots, cb, clock>>

NextSaveSteps ==
    \/ Idle /\ on_retriever_start("q1")
    \/ Idle /\ on_retriever_end(<<StrDoc("c1")>>, 3, "ok")
    \/ Idle /\ LlmStart("gpt-4", <<"p1">>, "ok")
    \/ Idle /\ \E r \in Responses : on_llm_end(r, 5, "ok")
    \/ \E c \in CallIds : SaveBegin(c)
    \/ \E c \in CallIds : SaveStoreEvent(c)
    \/ ReadDetail("s1")
    \/ TickBounded

SpecSaveSteps == InitSaveSteps /\ [][NextSaveSteps]_vars

\* C35: a get_session_detail that runs while save() is between its
\* update_session and the end of its loop, and sees completed_at set, finds
\* every phase event of that flush in its slot
C35_FlushAtomic ==
    (/\ last.op = "get_session_detail"
     /\ last.ret # None
     /\ last.ret[1].session.completed_at # None)
    => \A c \in last.arg.during :
          \A i \in DOMAIN to_stored_events(cb.capture[1]) :
              last.ret[1][to_stored_events(cb.capture[1])[i].event_type] # None

-----------------------------------------------------------------------------
(* api/main.py: ConnectionManager on the event loop.  A coroutine runs   *)
(* alone from one await to the next; while broadcast awaits a send, the  *)
(* websocket endpoints connect and disconnect.  The for statement of     *)
(* broadcast iterates the set itself: a set iterator raises RuntimeError *)
(* when the set has another size than at the start of the loop, and      *)
(* after changes that leave the size alone it still yields the members   *)
(* it had not reached, and may or may not yield the new ones.            *)

WebSockets == {"w1", "w2", "w3"}

InitBroadcast ==
    /\ foreign_keys \in BOOLEAN
    /\ calls = <<>>
    /\ active_connections = {}
    /\ sessions = <<>>
    /\ events = <<>>
    /\ snapshots = <<>>
    /\ cb = RagDebuggerCallback(None, None, TRUE)
    /\ clock = 1
    /\ last = Call("ConnectionManager", "", "ok")

\* ConnectionManager.connect, once websocket.accept() has returned
connect(websocket) ==
    /\ websocket \notin active_connections
    /\ active_connections' = active_connections \cup {websocket}
    /\ last' = Call("connect", websocket, "ok")
    /\ UNCHANGED <<calls, foreign_keys, sessions, events, snapshots, cb, clock>>

\* ConnectionManager.disconnect
disconnect(websocket) ==
    /\ active_connections' = active_connections \ {websocket}
    /\ last' = Call("disconnect", websocket, "ok")
    /\ UNCHANGED <<calls, foreign_keys, sessions, events, snapshots, cb, clock>>

\* broadcast up to its first await: the loop starts on the set as it is
\* (started and visited note what the loop met)
BroadcastBegin(c) ==
    /\ c \notin DOMAIN calls
    /\ IF active_connections = {}
       THEN calls' = calls @@
               (c :> [op |-> "broadcast", pc |-> "done", ret |-> "ok",
                      started |-> {}, size |-> 0, visited |-> {},
                      disconnected |-> {}, connection |-> ""])
       ELSE \E connection \in active_connections :
               calls' = calls @@
                  (c :> [op |-> "broadcast", pc |-> "send", ret |-> "",
                         started |-> active_connections,
                         size |-> Cardinality(active_connections),
                         visited |-> {connection},
                         disconnected |-> {}, connection |-> connection])
    /\ last' = Call("broadcast", c, "")
    /\ UNCHANGED <<active_connections, foreign_keys, sessions, events, snapshots, cb, clock>>

\* broadcast from the return of one send_json to the next await or to its
\* end; raised tells whether the send raised
BroadcastResume(c, raised) ==
    /\ c \in DOMAIN calls
    /\ calls[c].pc = "send"
    /\ LET disconnected == calls[c].disconnected \cup
                              (IF raised THEN {calls[c].connection} ELSE {})
       IN
       IF Cardinality(active_connections) # calls[c].size
       THEN /\ calls' = [calls EXCEPT ![c].pc = "done",
                                      ![c].ret = "RuntimeError",
                                      ![c].disconnected = disconnected]
            /\ UNCHANGED active_connections
       ELSE \E next \in (active_connections \ calls[c].visited) \cup {"StopIteration"} :
               IF next = "StopIteration"
               THEN /\ (active_connections \cap calls[c].started) \subseteq calls[c].visited
                    /\ active_connections' = active_connections \ disconnected
                    /\ calls' = [calls EXCEPT ![c].pc = "done",
                                              ![c].ret = "ok",
                                              ![c].disconnected = disconnected]
               ELSE /\ calls' = [calls EXCEPT ![c].connection = next,
                                              ![c].visited = @ \cup {next},
                                              ![c].disconnected = disconnected]
                    /\ UNCHANGED active_connections
    /\ last' = Call("broadcast", c, calls'[c].ret)
    /\ UNCHANGED <<foreign_keys, sessions, events, snapshots, cb, clock>>

NextBroadcast ==
    \/ \E websocket \in WebSockets : connect(websocket)
    \/ \E websocket \in WebSockets : disconnect(websocket)
    \/ BroadcastBegin("a")
    \/ \E raised \in BOOLEAN : BroadcastResume("a", raised)

SpecBroadcast == InitBroadcast /\ [][NextBroadcast]_vars

\* C39: a broadcast that has ended has ended without an error, has sent to
\* every connection that was active when it started, and, at the step it
\* ends, has left no connection whose send raised among the active ones
C39_Broadcast ==
    \A c \in DOMAIN calls :
        calls[c].pc = "done"
        => /\ calls[c].ret = "ok"
           /\ calls[c].started \subseteq calls[c].visited
           /\ (last.op = "broadcast" /\ last.arg = c)
                 => active_connections \cap calls[c].disconnected = {}
====
